---- MODULE Spec2Model ----
(***************************************************************************)
(* Quiz / mock-test engine of the targetjee backend:                       *)
(*   - the seeded shuffle (createSeededRandom, shuffleArray),              *)
(*   - quiz assembly (getQuizById / getMockTestById),                      *)
(*   - authoring (createQuiz / deleteQuiz and the mock-test twins),        *)
(*   - attempt submission and scoring (submitQuizAttempt / ...MockTest).   *)
(* Strings are sequences of UTF-16 code units, JS numbers that must be     *)
(* 32-bit are wrapped explicitly, percentages are IEEE 754 doubles.        *)
(***************************************************************************)
EXTENDS Integers, Sequences, FiniteSets, TLC

VARIABLES
    seedIn,     \* shuffle run: the seed string handed to createSeededRandom
    arrayIn,    \* shuffle run: the array handed to shuffleArray
    hash,       \* shuffle run: the closure variable `hash` of the generator
    shuffled,   \* shuffle run: the local array `shuffled` (index -> value)
    idx,        \* shuffle run: loop variable (char index, then i)
    calls,      \* shuffle run: number of random() calls made so far
    spc,        \* shuffle run: position in createSeededRandom / shuffleArray
    db,         \* the relational store: committed rows and auto-increment counters
    reqs,       \* request slot -> the handler running in it (position, locals, transaction)
    resp,       \* request slot -> the last response sent on it
    view,       \* the last quiz view served, with the request and the quiz it was built from
    now,        \* wall clock (seconds)
    sched       \* the scheduler service: its job registry and its immediate job

shuffleVars == <<seedIn, arrayIn, hash, shuffled, idx, calls, spc>>
storeVars == <<db, reqs, resp>>
viewVars == <<view, now, sched>>

vars == <<shuffleVars, storeVars, viewVars>>

----------------------------------------------------------------------------
(* Values *)

\* what reading a missing array key yields; array elements are ids >= 1
Undef == 0

\* longest array handed to the stand-alone shuffle run
MaxLen == 4

----------------------------------------------------------------------------
(* Strings as code-unit sequences *)

\* '0'..'9'
DigitCode(d) == 48 + d

RECURSIVE NumToStr(_)
\* String(n) of a non-negative integer, as code units
NumToStr(n) ==
    IF n < 10 THEN <<DigitCode(n)>>
    ELSE NumToStr(n \div 10) \o <<DigitCode(n % 10)>>

StrAnonymous == <<97, 110, 111, 110, 121, 109, 111, 117, 115>>   \* "anonymous"
StrDefault == <<100, 101, 102, 97, 117, 108, 116>>               \* "default"
StrDash == <<45>>                                                \* "-"
StrLoopback == <<58, 58, 49>>                                    \* "::1"
StrA == <<97>>                                                   \* "a"

----------------------------------------------------------------------------
(* createSeededRandom *)

Two16 == 65536
LcgMul == 9301
LcgAdd == 49297
LcgMod == 233280

\* signed 32-bit value of the 16-bit halves hi, lo
Int32Of(hi, lo) == (IF hi >= 32768 THEN hi - Two16 ELSE hi) * Two16 + lo

\* hash = ((hash << 5) - hash) + char; hash = hash & hash
\* i.e. (31 * hash + char) wrapped to a signed 32-bit integer
HashStep(h, char) ==
    LET lo == h % Two16
        hi == (h \div Two16) % Two16
        lo31 == (lo * 31) + char
        newlo == lo31 % Two16
        newhi == ((hi * 31) + (lo31 \div Two16)) % Two16
    IN  Int32Of(newhi, newlo)

RECURSIVE HashFrom(_, _, _)
\* the for-loop of createSeededRandom from character k on
HashFrom(h, seed, k) ==
    IF k > Len(seed) THEN h
    ELSE LET stepped == HashStep(h, seed[k])
         IN  CASE stepped \in Int -> HashFrom(stepped, seed, k + 1)

\* the variable `hash` when createSeededRandom returns the generator
SeedHash(seed) == HashFrom(0, seed, 1)

\* (a * 9301) mod 233280 for a in 0..233279, in steps that stay below 2^31
MulMod(a) ==
    (((a * (LcgMul \div 2)) % LcgMod) + ((a * (LcgMul - (LcgMul \div 2))) % LcgMod)) % LcgMod

\* hash = (hash * 9301 + 49297) % 233280 with the remainder operator of JS:
\* the result has the sign of the dividend
NextHash(h) ==
    LET r == (MulMod(h % LcgMod) + LcgAdd) % LcgMod     \* mathematical modulus
        dividendNegative == h < -5                      \* h*9301 + 49297 < 0
    IN  IF dividendNegative /\ r # 0 THEN r - LcgMod ELSE r

\* Math.floor(random() * (i + 1)) where random() returned h / 233280
FloorScaled(h, i) == (h * (i + 1)) \div LcgMod

----------------------------------------------------------------------------
(* shuffleArray *)

\* const shuffled = [...array]: indices 0..n-1; a negative j adds a property
\* outside 0..n-1, kept here so that a later read of the same key finds it
SpreadArray(array) ==
    [k \in (0 - Len(array))..(Len(array) - 1) |->
        IF k >= 0 THEN array[k + 1] ELSE Undef]

\* [shuffled[i], shuffled[j]] = [shuffled[j], shuffled[i]]
Swap(a, i, j) == [a EXCEPT ![i] = a[j], ![j] = a[i]]

\* one iteration of the for-loop: st = [a, h, i]
ShuffleIter(st) ==
    LET h2 == NextHash(st.h)
        j == FloorScaled(h2, st.i)
    IN  [a |-> Swap(st.a, st.i, j), h |-> h2, i |-> st.i - 1]

RECURSIVE ShuffleLoop(_)
ShuffleLoop(st) == IF st.i > 0 THEN ShuffleLoop(ShuffleIter(st)) ELSE st

\* return shuffled: the elements at 0..length-1
ArrayOf(a, n) == [k \in 1..n |-> a[k - 1]]

\* shuffleArray(array, random) with the generator in state h;
\* yields the returned array and the generator's state afterwards
ShuffleArray(array, h) ==
    LET st == ShuffleLoop([a |-> SpreadArray(array), h |-> h, i |-> Len(array) - 1])
    IN  [arr |-> ArrayOf(st.a, Len(array)), h |-> st.h]

----------------------------------------------------------------------------
(* Seeds of a quiz view *)

\* a seed that also carries the time of the request
SeedStringAt(userId, id, userSeed) ==
    userId \o StrDash \o NumToStr(id) \o StrDash
        \o (IF userSeed = <<>> THEN StrDefault ELSE userSeed) \o NumToStr(now)

\* `${userId}-${id}-${userSeed || 'default'}` where userId is
\* req.userId || req.ip || 'anonymous'
\* (an absent userSeed and an empty one are both falsy: <<>> stands for both)
SeedString(userId, id, userSeed) ==
    userId \o StrDash \o NumToStr(id) \o StrDash \o
        (IF userSeed = <<>> THEN StrDefault ELSE userSeed)

\* requester identities: authenticated ids 1 and 2, a network address, neither
Requesters == {NumToStr(1), NumToStr(2), StrLoopback, StrAnonymous}
UserSeeds == {<<>>, StrA}
QuizIds == {1, 2}

Seeds == {SeedString(u, q, s) : u \in Requesters, q \in QuizIds, s \in UserSeeds}


----------------------------------------------------------------------------
(* The store: tables, transactions *)

\* largest quiz id the store hands out
MaxQuizId == 2
\* largest attempt id the store hands out
MaxAttemptId == 1

Slots == {1}

QuestionTypes == {"multiple_choice", "single_choice", "true_false", "fill_blank"}

EmptyTables ==
    [quizzes |-> {}, questions |-> {}, answers |-> {}, attempts |-> {}, userAnswers |-> {}]

Tables == DOMAIN EmptyTables

\* the store before any request
EmptyDb ==
    [rows |-> EmptyTables,
     nextId |-> [quizzes |-> 1, questions |-> 1, answers |-> 1, attempts |-> 1, userAnswers |-> 1],
     onDelete |-> "NO ACTION"]

\* quiz_attempts.quizId, user_quiz_answers.attemptId and .questionId are NOT NULL
\* foreign keys with no onDelete of their own: hasMany gives such a key
\* ON DELETE CASCADE and belongsTo gives it NO ACTION, and the association
\* that is set up first decides.  The nullable user_quiz_answers.answerId
\* gets SET NULL from either.
OnDeleteRules == {"CASCADE", "NO ACTION"}

\* no transaction yet
NoTx == [state |-> "none", ins |-> EmptyTables, del |-> EmptyTables]

\* const transaction = await sequelize.transaction()
OpenTx == [NoTx EXCEPT !.state = "open"]

\* whether a persistence call is handed { transaction }
WithTransaction == TRUE
NoTransaction == FALSE

\* Model.create(values, options): the row gets the next auto-increment id;
\* inside the transaction it stays pending until commit, otherwise it is
\* committed at once.  w = [db, tx]
Create(w, table, values, inTx) ==
    LET id == w.db.nextId[table]
        row == [values EXCEPT !.id = id]
        db1 == [w.db EXCEPT !.nextId[table] = id + 1]
    IN  IF inTx
        THEN [db |-> db1, tx |-> [w.tx EXCEPT !.ins[table] = @ \cup {row}], id |-> id]
        ELSE [db |-> [db1 EXCEPT !.rows[table] = @ \cup {row}], tx |-> w.tx, id |-> id]

\* instance.update(values, options) of the row `old`, giving the row `new`
Update(w, table, old, new, inTx) ==
    IF inTx
    THEN IF old \in w.tx.ins[table]
         THEN [db |-> w.db, tx |-> [w.tx EXCEPT !.ins[table] = (@ \ {old}) \cup {new}]]
         ELSE [db |-> w.db,
               tx |-> [w.tx EXCEPT !.del[table] = @ \cup {old}, !.ins[table] = @ \cup {new}]]
    ELSE [db |-> [w.db EXCEPT !.rows[table] = (@ \ {old}) \cup {new}], tx |-> w.tx]

\* Model.destroy({ where, transaction }) of the rows `gone`
Destroy(w, table, gone, inTx) ==
    IF inTx
    THEN [db |-> w.db,
          tx |-> [w.tx EXCEPT !.del[table] = @ \cup (gone \cap w.db.rows[table]),
                              !.ins[table] = @ \ gone]]
    ELSE [db |-> [w.db EXCEPT !.rows[table] = @ \ gone], tx |-> w.tx]

\* transaction.commit(): pending deletes and inserts reach the tables
CommitTx(w) ==
    [db |-> [w.db EXCEPT !.rows = [t \in Tables |-> (w.db.rows[t] \ w.tx.del[t]) \cup w.tx.ins[t]]],
     tx |-> [state |-> "committed", ins |-> EmptyTables, del |-> EmptyTables]]

\* transaction.rollback(): pending work is dropped
RollbackTx(w) ==
    [db |-> w.db, tx |-> [state |-> "rolledback", ins |-> EmptyTables, del |-> EmptyTables]]

\* the rows of a table as the transaction of w sees them
Visible(w, table) == (w.db.rows[table] \ w.tx.del[table]) \cup w.tx.ins[table]

\* the quiz with its questions and their answers, as an include loads it
QuizTree(rows, quizId) ==
    [quiz |-> {z \in rows.quizzes : z.id = quizId},
     questions |-> {q \in rows.questions : q.quizId = quizId},
     answers |-> {a \in rows.answers :
                    \E q \in rows.questions : q.quizId = quizId /\ a.questionId = q.id}]

\* the id of the row a request is about: the quiz a create made, the attempt
\* a submission made, the quiz a delete names (0: none yet); r.from holds the
\* ids the tables would give next when the request arrived
Made(r) ==
    IF r.op \in {"createQuiz", "createMockTest"} THEN r.quizId
    ELSE IF r.op \in {"submitQuizAttempt", "submitMockTestAttempt"} THEN r.attempt
    ELSE r.id

\* a response of status and message, tagged with the operation that sent it
Reply(r, out) ==
    [status |-> out.status, message |-> out.message, op |-> r.op, made |-> Made(r),
     mock |-> r.op = "deleteMockTest", from |-> r.from,
     before |-> IF r.op \in {"deleteQuiz", "deleteMockTest"} THEN r.before ELSE {},
     body |-> IF r.op \in {"submitQuizAttempt", "submitMockTestAttempt"} THEN {r.body} ELSE {}]

\* a slot with no request in it
Idle == [op |-> "idle", pc |-> "idle"]

\* the response slot before any response
NoResponse == [status |-> 0, message |-> "none"]

\* new SchedulerService(): this.jobs = new Map(), no immediate job made, and
\* scrapeAllQuestions not called yet
NoSchedule == [jobs |-> {}, immediateJob |-> "none", scrapes |-> 0]

StoreIdle ==
    /\ db = EmptyDb
    /\ reqs = [s \in Slots |-> Idle]
    /\ resp = [s \in Slots |-> NoResponse]
    /\ view = NoResponse
    /\ now = 0
    /\ sched = NoSchedule

----------------------------------------------------------------------------
(* Request payloads of the authoring operations *)

StrQ == <<81>>                              \* "Q"
StrOptA == <<65>>                           \* "A"
StrOptB == <<66>>                           \* "B"

\* a JSON array and a value that is not an array (or is missing)
Arr(items) == [isArray |-> TRUE, items |-> items]
NotAnArray == [isArray |-> FALSE, items |-> <<>>]

\* isCorrect in a payload: "true", "false" or "undefined" (key missing);
\* explanation <<>> is a missing one
Ans(text, flag) == [answerText |-> text, isCorrect |-> flag, explanation |-> <<>>]

\* points 0 stands for a missing (or zero) points value, both falsy
Qn(text, type, points, answers) ==
    [questionText |-> text, questionType |-> type, points |-> points, explanation |-> <<>>,
     answers |-> answers]

StrWhy == <<87>>                            \* "W"

\* the question q with an explanation of its own and of each of its answers
Explained(q) ==
    [q EXCEPT !.explanation = StrWhy,
              !.answers.items = [k \in 1..Len(@) |-> [@[k] EXCEPT !.explanation = StrWhy]]]

TwoOptions == Arr(<<Ans(StrOptA, "true"), Ans(StrOptB, "false")>>)

\* a definition; passingScore {} is a missing passing score, title <<>> a missing title
QuizDef(title, passing, questions) ==
    [lessonId |-> 1, title |-> title, description |-> <<>>, timeLimit |-> 0,
     passingScore |-> passing, questions |-> questions]

\* two questions worth 29 and 21 points, passing score 58
DefOne ==
    QuizDef(<<84, 49>>, {58},
        Arr(<<Qn(StrQ, "single_choice", 29, TwoOptions),
              Qn(StrQ, "true_false", 21, TwoOptions)>>))

\* two questions worth 1 (default) and 2 points, no passing score
DefTwo ==
    QuizDef(<<84, 50>>, {},
        Arr(<<Qn(StrQ, "single_choice", 0, TwoOptions),
              Qn(StrQ, "true_false", 2, Arr(<<Ans(StrOptA, "false"), Ans(StrOptB, "true")>>))>>))

\* the two questions of DefTwo with a passing score of 0
DefZero == [DefTwo EXCEPT !.title = <<84, 48>>, !.passingScore = {0}]

\* three questions worth 1, 2 and 3 points
DefThree ==
    QuizDef(<<84, 55>>, {},
        Arr(<<Explained(Qn(StrQ, "single_choice", 1, TwoOptions)),
              Qn(StrQ, "multiple_choice", 2, TwoOptions),
              Explained(Qn(StrQ, "true_false", 3, TwoOptions))>>))

\* the definition def with field f of question i replaced by v
WithQuestion(def, i, f, v) ==
    [def EXCEPT !.title = @ \o <<i, 1>>, !.questions.items[i][f] = v]

\* the definition def with field f of answer k of question i replaced by v
WithAnswer(def, i, k, f, v) ==
    [def EXCEPT !.title = @ \o <<i, k>>, !.questions.items[i].answers.items[k][f] = v]

\* definitions whose question i lacks its text, its type or its answers array
BrokenQuestions ==
    UNION {{WithQuestion(DefTwo, i, "questionText", <<>>),
            WithQuestion([DefTwo EXCEPT !.title = <<84, 51>>], i, "questionType", ""),
            WithQuestion([DefTwo EXCEPT !.title = <<84, 52>>], i, "answers", NotAnArray)} : i \in 1..2}

\* definitions whose answer k of question i lacks its text or its correctness flag
BrokenAnswers ==
    UNION {{WithAnswer([DefTwo EXCEPT !.title = <<84, 53>>], i, k, "answerText", <<>>),
            WithAnswer([DefTwo EXCEPT !.title = <<84, 54>>], i, k, "isCorrect", "undefined")} :
                i \in 1..2, k \in 1..2}

\* definitions rejected before anything is written
BrokenTop ==
    {[DefOne EXCEPT !.title = <<>>], [DefOne EXCEPT !.questions = Arr(<<>>)],
     [DefOne EXCEPT !.questions = NotAnArray]}

\* DefOne with -1 as the points of its first question
DefNegative == [DefOne EXCEPT !.title = <<84, 45>>, !.questions.items[1].points = -1]

\* the definitions the authoring runs draw from
Definitions ==
    {DefOne, DefTwo, DefNegative} \cup BrokenQuestions \cup BrokenAnswers \cup BrokenTop

\* !questionText || !questionType || !answers || !Array.isArray(answers)
InvalidQuestion(q) == q.questionText = <<>> \/ q.questionType = "" \/ ~q.answers.isArray

\* !answerText || isCorrect === undefined
InvalidAnswer(a) == a.answerText = <<>> \/ a.isCorrect = "undefined"

\* a definition that passes every check of createQuiz
ValidDef(def) ==
    /\ def.title # <<>>
    /\ def.questions.isArray /\ def.questions.items # <<>>
    /\ \A i \in 1..Len(def.questions.items) :
        LET q == def.questions.items[i]
        IN  /\ ~InvalidQuestion(q)
            /\ \A k \in 1..Len(q.answers.items) : ~InvalidAnswer(q.answers.items[k])

\* the definitions the submission runs draw from
ValidDefinitions == {DefOne, DefTwo, DefZero}

\* the definitions the view runs draw from
ViewDefinitions == {DefOne, DefTwo, DefThree}

----------------------------------------------------------------------------
(* createQuiz / createMockTest *)

BadRequest(msg) == [status |-> 400, message |-> msg]
NotFound(msg) == [status |-> 404, message |-> msg]
ServerError(msg) == [status |-> 500, message |-> msg]

\* where the question loop stands when question i is next
RECURSIVE AtQuestion(_, _)
AtQuestion(def, i) ==
    IF i > Len(def.questions.items) THEN [pc |-> "commit", i |-> i, k |-> 0]
    ELSE IF InvalidQuestion(def.questions.items[i])
         THEN [pc |-> "rollback", i |-> i, k |-> 0]
         ELSE [pc |-> "createQuestion", i |-> i, k |-> 0]

\* where the answer loop of question i stands when answer k is next
AtAnswer(def, i, k) ==
    LET answers == def.questions.items[i].answers.items
    IN  IF k > Len(answers) THEN AtQuestion(def, i + 1)
        ELSE IF InvalidAnswer(answers[k])
             THEN [pc |-> "rollback", i |-> i, k |-> k]
             ELSE [pc |-> "createAnswer", i |-> i, k |-> k]

\* the 400 sent for the place the loops stopped at
InvalidAt(at) ==
    IF at.k = 0 THEN BadRequest("Invalid question: missing required fields")
    ELSE BadRequest("Invalid answer: missing required fields")

\* the options of the three create calls of createQuiz
QuizCreateOptions == WithTransaction

QuestionCreateOptions == WithTransaction

AnswerCreateOptions == WithTransaction

World(s) == [db |-> db, tx |-> reqs[s].tx]

\* the transactions the other requests hold open
OpenElsewhere(s) ==
    {reqs[o].tx : o \in {x \in DOMAIN reqs \ {s} :
                            IF reqs[x].op = "idle" THEN FALSE ELSE reqs[x].tx.state = "open"}}

\* the rows those transactions have inserted and not yet committed: the
\* store makes a delete of a row they reference wait
InsertedElsewhere(s, table) == UNION {t.ins[table] : t \in OpenElsewhere(s)}

\* the rows those transactions have deleted and not yet committed: the
\* store makes an insert that references one of them wait
DeletedElsewhere(s, table) == UNION {t.del[table] : t \in OpenElsewhere(s)}

\* a request arrives: the handler runs up to `await sequelize.transaction()`
CreateStart(s, mock, def) ==
    /\ reqs[s] = Idle
    /\ db.nextId.quizzes <= MaxQuizId
    /\ reqs' = [reqs EXCEPT ![s] =
            [op |-> IF mock THEN "createMockTest" ELSE "createQuiz", pc |-> "begin",
             body |-> def, tx |-> NoTx, out |-> NoResponse,
             quizId |-> 0, questionId |-> 0, i |-> 0, k |-> 0, from |-> db.nextId]]
    /\ resp' = [resp EXCEPT ![s] = NoResponse]
    /\ UNCHANGED <<db, shuffleVars, viewVars>>

IsCreate(r) == r.op \in {"createQuiz", "createMockTest"}

\* the transaction is open; the required fields are checked
CreateBegin(s) ==
    LET r == reqs[s]
        def == r.body
        missing == (r.op = "createQuiz" /\ def.lessonId = 0) \/ def.title = <<>>
                     \/ ~def.questions.isArray \/ def.questions.items = <<>>
    IN  /\ IsCreate(r) /\ r.pc = "begin"
        /\ reqs' = [reqs EXCEPT ![s] =
                IF missing
                THEN [r EXCEPT !.tx = OpenTx, !.pc = "rollback",
                               !.out = BadRequest("Missing required fields")]
                ELSE [r EXCEPT !.tx = OpenTx, !.pc = "createRoot"]]
        /\ UNCHANGED <<db, resp, shuffleVars, viewVars>>

\* Quiz.create(...), then the loop runs to its first await
CreateRoot(s) ==
    LET r == reqs[s]
        def == r.body
        w == Create(World(s), "quizzes",
                [id |-> 0, lessonId |-> IF r.op = "createMockTest" THEN 0 ELSE def.lessonId,
                 title |-> def.title, passingScore |-> def.passingScore, createdAt |-> now],
                QuizCreateOptions)
        at == AtQuestion(def, 1)
    IN  /\ IsCreate(r) /\ r.pc = "createRoot"
        /\ db' = w.db
        /\ reqs' = [reqs EXCEPT ![s] =
                [r EXCEPT !.tx = w.tx, !.quizId = w.id, !.pc = at.pc, !.i = at.i, !.k = at.k,
                          !.out = InvalidAt(at)]]
        /\ UNCHANGED <<resp, shuffleVars, viewVars>>

\* QuizQuestion.create(...) for question i
CreateQuestion(s) ==
    LET r == reqs[s]
        q == r.body.questions.items[r.i]
        w == Create(World(s), "questions",
                [id |-> 0, quizId |-> r.quizId, questionText |-> q.questionText,
                 questionType |-> q.questionType,
                 points |-> IF q.points = 0 THEN 1 ELSE q.points,
                 explanation |-> q.explanation, position |-> r.i - 1],
                QuestionCreateOptions)
        at == AtAnswer(r.body, r.i, 1)
    IN  /\ IsCreate(r) /\ r.pc = "createQuestion"
        /\ q.questionType \in QuestionTypes
        /\ db' = w.db
        /\ reqs' = [reqs EXCEPT ![s] =
                [r EXCEPT !.tx = w.tx, !.questionId = w.id, !.pc = at.pc, !.i = at.i, !.k = at.k,
                          !.out = InvalidAt(at)]]
        /\ UNCHANGED <<resp, shuffleVars, viewVars>>

\* QuizAnswer.create(...) for answer k of question i
CreateAnswer(s) ==
    LET r == reqs[s]
        a == r.body.questions.items[r.i].answers.items[r.k]
        w == Create(World(s), "answers",
                [id |-> 0, questionId |-> r.questionId, answerText |-> a.answerText,
                 isCorrect |-> (a.isCorrect = "true"), explanation |-> a.explanation],
                AnswerCreateOptions)
        at == AtAnswer(r.body, r.i, r.k + 1)
    IN  /\ IsCreate(r) /\ r.pc = "createAnswer"
        /\ db' = w.db
        /\ reqs' = [reqs EXCEPT ![s] =
                [r EXCEPT !.tx = w.tx, !.pc = at.pc, !.i = at.i, !.k = at.k,
                          !.out = InvalidAt(at)]]
        /\ UNCHANGED <<resp, shuffleVars, viewVars>>

----------------------------------------------------------------------------
(* deleteQuiz / deleteMockTest *)

IsDelete(r) == r.op \in {"deleteQuiz", "deleteMockTest"}

\* Quiz.findByPk(id) of the lesson-quiz handlers, and
\* Quiz.findOne({ where: { id, lessonId: null } }) of the mock-test handlers
FindQuiz(rows, id, mockOnly) ==
    {z \in rows.quizzes : z.id = id /\ (mockOnly => z.lessonId = 0)}

DeleteStart(s, mock, id) ==
    /\ reqs[s] = Idle
    /\ reqs' = [reqs EXCEPT ![s] =
            [op |-> IF mock THEN "deleteMockTest" ELSE "deleteQuiz", pc |-> "begin",
             id |-> id, tx |-> NoTx, out |-> NoResponse, quiz |-> {}, todo |-> {},
             before |-> QuizTree(db.rows, id), from |-> db.nextId]]
    /\ resp' = [resp EXCEPT ![s] = NoResponse]
    /\ UNCHANGED <<db, shuffleVars, viewVars>>

DeleteBegin(s) ==
    LET r == reqs[s]
    IN  /\ IsDelete(r) /\ r.pc = "begin"
        /\ reqs' = [reqs EXCEPT ![s] = [r EXCEPT !.tx = OpenTx, !.pc = "findQuiz"]]
        /\ UNCHANGED <<db, resp, shuffleVars, viewVars>>

\* the quiz is looked up; a miss is answered 404 after a rollback
DeleteFind(s) ==
    LET r == reqs[s]
        found == FindQuiz(db.rows, r.id, r.op = "deleteMockTest")
    IN  /\ IsDelete(r) /\ r.pc = "findQuiz"
        /\ reqs' = [reqs EXCEPT ![s] =
                IF found = {}
                THEN [r EXCEPT !.pc = "rollback", !.out = NotFound("Quiz not found")]
                ELSE [r EXCEPT !.pc = "countAttempts", !.quiz = found]]
        /\ UNCHANGED <<db, resp, shuffleVars, viewVars>>

\* a count of the attempts of signed-in users only
AttemptCountOfUsers(rows, id) ==
    Cardinality({a \in rows.attempts : a.quizId = id /\ a.userId # 0})

\* QuizAttempt.count({ where: { quizId: id } })
AttemptCount(rows, id) == Cardinality({a \in rows.attempts : a.quizId = id})

\* the refusal answered as if the quiz were not there
RefusedAsMissing == NotFound("Quiz not found")

\* res.status(400).json({ message: 'Cannot delete quiz with existing attempts' })
Refused == BadRequest("Cannot delete quiz with existing attempts")

\* attempts exist: rollback and 400 'Cannot delete quiz with existing attempts'
DeleteCount(s) ==
    LET r == reqs[s]
    IN  /\ IsDelete(r) /\ r.pc = "countAttempts"
        /\ reqs' = [reqs EXCEPT ![s] =
                IF AttemptCount(db.rows, r.id) > 0
                THEN [r EXCEPT !.pc = "rollback", !.out = Refused]
                ELSE [r EXCEPT !.pc = "findQuestions"]]
        /\ UNCHANGED <<db, resp, shuffleVars, viewVars>>

\* the first question of the quiz only
FirstQuestionOfQuiz(rows, id) ==
    {q \in rows.questions : q.quizId = id /\ \A p \in rows.questions : p.quizId = id => q.id <= p.id}

\* where: { quizId: id } on quiz_questions
QuestionsOfQuiz(rows, id) == {q \in rows.questions : q.quizId = id}

\* QuizQuestion.findAll({ where: { quizId: id } })
DeleteFindQuestions(s) ==
    LET r == reqs[s]
        ids == {q.id : q \in QuestionsOfQuiz(db.rows, r.id)}
    IN  /\ IsDelete(r) /\ r.pc = "findQuestions"
        /\ reqs' = [reqs EXCEPT ![s] =
                [r EXCEPT !.todo = ids,
                          !.pc = IF ids = {} THEN "destroyQuestions" ELSE "destroyAnswers"]]
        /\ UNCHANGED <<db, resp, shuffleVars, viewVars>>

\* the options of the destroy calls of deleteQuiz
DestroyOptions == WithTransaction

Min(S) == CHOOSE x \in S : \A y \in S : x <= y

\* the destroy call of the position the delete is at waits: a row it is to
\* delete is referenced by a row another open transaction has inserted
DestroyWaits(s) ==
    LET r == reqs[s]
    IN  IF ~IsDelete(r) THEN FALSE
        ELSE IF r.pc = "destroyAnswers"
        THEN \E u \in InsertedElsewhere(s, "userAnswers"), a \in db.rows.answers :
                a.questionId = Min(r.todo) /\ u.answerId = a.id
        ELSE IF r.pc = "destroyQuestions"
        THEN \E u \in InsertedElsewhere(s, "userAnswers") :
                \E q \in QuestionsOfQuiz(db.rows, r.id) : u.questionId = q.id
        ELSE IF r.pc = "destroyQuiz"
        THEN \E a \in InsertedElsewhere(s, "attempts") : a.quizId = r.id
        ELSE FALSE

\* QuizAnswer.destroy({ where: { questionId: question.id }, transaction })
\* user_quiz_answers.answerId of the rows that name a deleted answer is set
\* to null
DeleteAnswers(s) ==
    LET r == reqs[s]
        qid == Min(r.todo)
        gone == {a \in db.rows.answers : a.questionId = qid}
        naming == {u \in Visible(World(s), "userAnswers") : \E a \in gone : u.answerId = a.id}
        w0 == Destroy(World(s), "answers", gone, DestroyOptions)
        w1 == Destroy(w0, "userAnswers", naming, DestroyOptions)
        w == [db |-> w1.db,
              tx |-> [w1.tx EXCEPT !.ins.userAnswers =
                            @ \cup {[u EXCEPT !.answerId = 0] : u \in naming}]]
        rest == r.todo \ {qid}
    IN  /\ IsDelete(r) /\ r.pc = "destroyAnswers"
        /\ ~DestroyWaits(s)
        /\ db' = w.db
        /\ reqs' = [reqs EXCEPT ![s] =
                [r EXCEPT !.tx = w.tx, !.todo = rest,
                          !.pc = IF rest = {} THEN "destroyQuestions" ELSE "destroyAnswers"]]
        /\ UNCHANGED <<resp, shuffleVars, viewVars>>

\* QuizQuestion.destroy({ where: { quizId: id }, transaction })
\* user answers that name a deleted question go with it (CASCADE) or make
\* the delete fail (NO ACTION)
DeleteQuestions(s) ==
    LET r == reqs[s]
        gone == QuestionsOfQuiz(db.rows, r.id)
        naming == {u \in Visible(World(s), "userAnswers") : \E q \in gone : u.questionId = q.id}
        w == Destroy(Destroy(World(s), "questions", gone, DestroyOptions),
                     "userAnswers", naming, DestroyOptions)
    IN  /\ IsDelete(r) /\ r.pc = "destroyQuestions"
        /\ ~DestroyWaits(s)
        /\ IF naming = {} \/ db.onDelete = "CASCADE"
           THEN /\ db' = w.db
                /\ reqs' = [reqs EXCEPT ![s] = [r EXCEPT !.tx = w.tx, !.pc = "destroyQuiz"]]
           ELSE /\ db' = db
                /\ reqs' = [reqs EXCEPT ![s] = [r EXCEPT !.pc = "catch"]]
        /\ UNCHANGED <<resp, shuffleVars, viewVars>>

\* quiz.destroy({ transaction })
\* attempts of the quiz go with it, and their user answers with them
\* (CASCADE), or make the delete fail (NO ACTION)
DeleteQuizRow(s) ==
    LET r == reqs[s]
        naming == {a \in Visible(World(s), "attempts") : a.quizId = r.id}
        theirs == {u \in Visible(World(s), "userAnswers") : \E a \in naming : u.attemptId = a.id}
        w == Destroy(Destroy(Destroy(World(s), "quizzes",
                                     {z \in db.rows.quizzes : z.id = r.id}, DestroyOptions),
                             "attempts", naming, DestroyOptions),
                     "userAnswers", theirs, DestroyOptions)
    IN  /\ IsDelete(r) /\ r.pc = "destroyQuiz"
        /\ ~DestroyWaits(s)
        /\ IF naming = {} \/ db.onDelete = "CASCADE"
           THEN /\ db' = w.db
                /\ reqs' = [reqs EXCEPT ![s] = [r EXCEPT !.tx = w.tx, !.pc = "commit"]]
           ELSE /\ db' = db
                /\ reqs' = [reqs EXCEPT ![s] = [r EXCEPT !.pc = "catch"]]
        /\ UNCHANGED <<resp, shuffleVars, viewVars>>

----------------------------------------------------------------------------
(* Text comparison of fill_blank answers *)

\* String.prototype.toLowerCase on the letters A-Z
LowerCode(c) == IF c >= 65 /\ c <= 90 THEN c + 32 ELSE c
ToLowerCase(str) == [k \in 1..Len(str) |-> LowerCode(str[k])]

\* white space removed by String.prototype.trim (space, tab, LF, CR)
IsSpace(c) == c \in {32, 9, 10, 13}

RECURSIVE TrimStart(_)
TrimStart(str) ==
    IF str # <<>> /\ IsSpace(Head(str)) THEN TrimStart(Tail(str)) ELSE str

RECURSIVE TrimEnd(_)
TrimEnd(str) ==
    IF str # <<>> /\ IsSpace(str[Len(str)]) THEN TrimEnd(SubSeq(str, 1, Len(str) - 1)) ELSE str

Trim(str) == TrimEnd(TrimStart(str))

----------------------------------------------------------------------------
(* submitQuizAttempt / submitMockTestAttempt *)

\* longest answers array of a submission
MaxSubs == 2

IsSubmit(r) == r.op \in {"submitQuizAttempt", "submitMockTestAttempt"}

\* an entry of the answers array; answerId 0 and textAnswer <<>> are missing
\* (or falsy: null, "", 0)
Entry(q, a, t) == [questionId |-> q, answerId |-> a, textAnswer |-> t]

\* a question id no quiz has
UnknownId == 99

\* a textAnswer that is truthy and not a string (a number, say 42)
NotAString == <<-1>>

\* the entries a client sends for a quiz: each of its questions with no
\* answer or one of that question's answers, and an id that is no question
Entries(quiz) ==
    UNION {{Entry(q.id, a, <<>>) :
                a \in {0} \cup {x.id : x \in {y \in quiz.answers : y.questionId = q.id}}} :
            q \in quiz.questions}
    \cup {Entry(UnknownId, 0, <<>>)}

RECURSIVE SeqsUpTo(_, _)
\* the sequences over S of length at most n
SeqsUpTo(S, n) ==
    IF n = 0 THEN {<<>>}
    ELSE LET shorter == SeqsUpTo(S, n - 1)
         IN  shorter \cup {Append(l, x) : l \in {m \in shorter : Len(m) = n - 1}, x \in S}

\* request bodies: complete ones for the quizzes of the store, one for a quiz
\* that does not exist, and ones missing a required field
SubmitBodies(rows) ==
    UNION {{[quizId |-> z.id, startedAt |-> 1, answers |-> Arr(l)] :
                l \in SeqsUpTo(Entries(QuizTree(rows, z.id)), MaxSubs)} : z \in rows.quizzes}
    \cup {[quizId |-> MaxQuizId + 1, startedAt |-> 1, answers |-> Arr(<<>>)],
          [quizId |-> 0, startedAt |-> 1, answers |-> Arr(<<>>)],
          [quizId |-> 1, startedAt |-> 0, answers |-> Arr(<<>>)],
          [quizId |-> 1, startedAt |-> 1, answers |-> NotAnArray]}

SubmitStart(s, mock, body, userId) ==
    /\ reqs[s] = Idle
    /\ reqs' = [reqs EXCEPT ![s] =
            [op |-> IF mock THEN "submitMockTestAttempt" ELSE "submitQuizAttempt",
             pc |-> "begin", body |-> body, userId |-> userId, tx |-> NoTx,
             out |-> NoResponse, quiz |-> EmptyTables, attempt |-> 0, n |-> 0,
             totalScore |-> 0, maxScore |-> 0, result |-> NoResponse,
             from |-> db.nextId]]
    /\ resp' = [resp EXCEPT ![s] = NoResponse]
    /\ UNCHANGED <<db, shuffleVars, viewVars>>

\* a submission arrives on slot s
SubmitRequest(s) ==
    /\ db.nextId.attempts <= MaxAttemptId
    /\ \E mock \in BOOLEAN, userId \in {0, 1}, body \in SubmitBodies(db.rows) :
            SubmitStart(s, mock, body, userId)

\* only the quizId is looked at
MissingQuizId(b) == b.quizId = 0

\* !quizId || !startedAt || !answers || !Array.isArray(answers)
MissingFields(b) == b.quizId = 0 \/ b.startedAt = 0 \/ ~b.answers.isArray

\* the validation of the body, after the transaction was opened
SubmitBegin(s) ==
    LET r == reqs[s]
        missing == MissingFields(r.body)
    IN  /\ IsSubmit(r) /\ r.pc = "begin"
        /\ reqs' = [reqs EXCEPT ![s] =
                IF missing
                THEN [r EXCEPT !.tx = OpenTx, !.pc = "rollback",
                               !.out = BadRequest("Missing required fields")]
                ELSE [r EXCEPT !.tx = OpenTx, !.pc = "findQuiz"]]
        /\ UNCHANGED <<db, resp, shuffleVars, viewVars>>

\* the quiz is loaded with its questions and their answers
SubmitFind(s) ==
    LET r == reqs[s]
        found == FindQuiz(db.rows, r.body.quizId, r.op = "submitMockTestAttempt")
    IN  /\ IsSubmit(r) /\ r.pc = "findQuiz"
        /\ reqs' = [reqs EXCEPT ![s] =
                IF found = {}
                THEN [r EXCEPT !.pc = "rollback", !.out = NotFound("Quiz not found")]
                ELSE [r EXCEPT !.pc = "createAttempt",
                               !.quiz = QuizTree(db.rows, r.body.quizId)]]
        /\ UNCHANGED <<db, resp, shuffleVars, viewVars>>

\* a lookup that falls back to the quiz's first question
QuestionOrFirst(quiz, questionId) ==
    LET match == {q \in quiz.questions : q.id = questionId}
    IN  IF match = {} THEN {q \in quiz.questions : \A p \in quiz.questions : q.id <= p.id}
        ELSE match

\* quiz.questions.find(q => q.id === parseInt(questionId))
QuestionOf(quiz, questionId) == {q \in quiz.questions : q.id = questionId}

\* a loop that ends at the first entry whose question is not of the quiz
NextEntryOrEnd(quiz, items, n) ==
    IF n > Len(items) THEN n
    ELSE IF QuestionOf(quiz, items[n].questionId) = {} THEN Len(items) + 1
    ELSE n

RECURSIVE NextEntry(_, _, _)
\* the first entry from position n on whose question belongs to the quiz
\* (the others are skipped by `continue`); Len + 1 when there is none
NextEntry(quiz, items, n) ==
    IF n > Len(items) THEN n
    ELSE IF QuestionOf(quiz, items[n].questionId) = {} THEN NextEntry(quiz, items, n + 1)
         ELSE n

AfterEntry(r, n) ==
    LET m == NextEntry(r.quiz, r.body.answers.items, n)
    IN  [n |-> m, pc |-> IF m > Len(r.body.answers.items) THEN "updateAttempt"
                         ELSE "createUserAnswer"]

\* the options of the persistence calls of submitQuizAttempt
AttemptCreateOptions == WithTransaction

UserAnswerCreateOptions == WithTransaction

AttemptUpdateOptions == WithTransaction

\* the create call of the position the submission is at waits: a row it is
\* to reference has been deleted by another open transaction
CreateWaits(s) ==
    LET r == reqs[s]
    IN  IF ~IsSubmit(r) THEN FALSE
        ELSE IF r.pc = "createAttempt"
        THEN \E z \in DeletedElsewhere(s, "quizzes") : z.id = r.body.quizId
        ELSE IF r.pc = "createUserAnswer"
        THEN LET entry == r.body.answers.items[r.n]
             IN  \/ \E q \in DeletedElsewhere(s, "questions") : q.id = entry.questionId
                 \/ \E a \in DeletedElsewhere(s, "answers") : a.id = entry.answerId
        ELSE FALSE

\* QuizAttempt.create({ quizId, userId, startedAt, completedAt, timeSpentSeconds });
\* quizId must reference a row of quizzes
SubmitCreateAttempt(s) ==
    LET r == reqs[s]
        w == Create(World(s), "attempts",
                [id |-> 0, quizId |-> r.body.quizId, userId |-> r.userId,
                 startedAt |-> r.body.startedAt, completedAt |-> now,
                 timeSpentSeconds |-> now - r.body.startedAt,
                 score |-> {}, maxScore |-> {}, percentageScore |-> {}, passed |-> {}],
                AttemptCreateOptions)
        at == AfterEntry(r, 1)
    IN  /\ IsSubmit(r) /\ r.pc = "createAttempt"
        /\ ~CreateWaits(s)
        /\ IF \E z \in db.rows.quizzes : z.id = r.body.quizId
           THEN /\ db' = w.db
                /\ reqs' = [reqs EXCEPT ![s] =
                        [r EXCEPT !.tx = w.tx, !.attempt = w.id, !.n = at.n, !.pc = at.pc]]
           ELSE /\ db' = db
                /\ reqs' = [reqs EXCEPT ![s] = [r EXCEPT !.pc = "catch"]]
        /\ UNCHANGED <<resp, shuffleVars, viewVars>>

\* grading that looks the answerId up among all answers of the quiz
IsCorrectAmongAll(quiz, question, entry) ==
    IF question.questionType = "fill_blank"
    THEN LET correctAnswers ==
                {Trim(ToLowerCase(a.answerText)) :
                    a \in {x \in quiz.answers : x.questionId = question.id /\ x.isCorrect}}
         IN  entry.textAnswer # <<>> /\ Trim(ToLowerCase(entry.textAnswer)) \in correctAnswers
    ELSE \E a \in quiz.answers : a.id = entry.answerId /\ a.isCorrect

\* grading that compares the texts lower-cased but not trimmed
IsCorrectUntrimmed(quiz, question, entry) ==
    LET answers == {a \in quiz.answers : a.questionId = question.id}
    IN  IF question.questionType = "fill_blank"
        THEN LET correctAnswers == {ToLowerCase(a.answerText) : a \in {x \in answers : x.isCorrect}}
             IN  entry.textAnswer # <<>> /\ ToLowerCase(entry.textAnswer) \in correctAnswers
        ELSE \E a \in answers : a.id = entry.answerId /\ a.isCorrect

\* whether the entry is correct for the question
IsCorrectEntry(quiz, question, entry) ==
    LET answers == {a \in quiz.answers : a.questionId = question.id}
    IN  IF question.questionType = "fill_blank"
        THEN LET correctAnswers ==
                    {Trim(ToLowerCase(a.answerText)) : a \in {x \in answers : x.isCorrect}}
             IN  entry.textAnswer # <<>> /\ Trim(ToLowerCase(entry.textAnswer)) \in correctAnswers
        ELSE \E a \in answers : a.id = entry.answerId /\ a.isCorrect

\* textAnswer.toLowerCase() of a truthy value that is no string throws
GradingThrows(question, entry) ==
    question.questionType = "fill_blank" /\ entry.textAnswer = NotAString

\* marking that counts a correct answer twice
PointsDoubled(isCorrect, question) == IF isCorrect THEN 2 * question.points ELSE 0

\* let pointsEarned = 0; if (isCorrect) pointsEarned = question.points
PointsEarned(isCorrect, question) == IF isCorrect THEN question.points ELSE 0

\* one pass of the loop body: the entry is graded and its UserQuizAnswer is
\* created; questionId must reference a row of quiz_questions and a non-null
\* answerId a row of quiz_answers
SubmitUserAnswer(s) ==
    LET r == reqs[s]
        entry == r.body.answers.items[r.n]
        question == CHOOSE q \in QuestionOf(r.quiz, entry.questionId) : TRUE
        isCorrect == IsCorrectEntry(r.quiz, question, entry)
        pointsEarned == PointsEarned(isCorrect, question)
        w == Create(World(s), "userAnswers",
                [id |-> 0, attemptId |-> r.attempt, questionId |-> entry.questionId,
                 answerId |-> entry.answerId, textAnswer |-> entry.textAnswer,
                 isCorrect |-> isCorrect, pointsEarned |-> pointsEarned],
                UserAnswerCreateOptions)
        at == AfterEntry(r, r.n + 1)
        answerExists == entry.answerId = 0 \/ \E a \in db.rows.answers : a.id = entry.answerId
        questionExists == \E q \in db.rows.questions : q.id = entry.questionId
    IN  /\ IsSubmit(r) /\ r.pc = "createUserAnswer"
        /\ GradingThrows(question, entry) \/ ~CreateWaits(s)
        /\ IF answerExists /\ questionExists /\ ~GradingThrows(question, entry)
           THEN /\ db' = w.db
                /\ reqs' = [reqs EXCEPT ![s] =
                        [r EXCEPT !.tx = w.tx, !.n = at.n, !.pc = at.pc,
                                  !.maxScore = @ + question.points,
                                  !.totalScore = @ + pointsEarned]]
           ELSE /\ db' = db
                /\ reqs' = [reqs EXCEPT ![s] = [r EXCEPT !.pc = "catch"]]
        /\ UNCHANGED <<resp, shuffleVars, viewVars>>

\* A JS number is an IEEE 754 double.  A positive one is held as [d, exp]: d is
\* its 53-bit significand followed by one zero bit, in three limbs of 18 bits,
\* the most significant first; exp is the exponent of its leading bit, so the
\* value is d * 2^(exp - 53).  Zero has d = <<0, 0, 0>>.
Limb == 262144

DoubleZero == [d |-> <<0, 0, 0>>, exp |-> 0]

RECURSIVE Pow2(_)
Pow2(k) == IF k = 0 THEN 1 ELSE 2 * Pow2(k - 1)

\* round to nearest, ties to even: q is 54 bits (significand and guard bit),
\* sticky tells whether anything non-zero lies below the guard bit
RoundNearestEven(q, sticky, exp) ==
    LET guard == q[3] % 2
        odd == (q[3] \div 2) % 2 = 1
        up == guard = 1 /\ (sticky \/ odd)
        c0 == (q[3] - guard) + (IF up THEN 2 ELSE 0)
        b0 == q[2] + (c0 \div Limb)
        a0 == q[1] + (b0 \div Limb)
    IN  IF a0 = Limb THEN [d |-> <<Limb \div 2, 0, 0>>, exp |-> exp + 1]
        ELSE [d |-> <<a0, b0 % Limb, c0 % Limb>>, exp |-> exp]

RECURSIVE Normalise(_, _, _)
\* n / m = (s / t) * 2^exp with t <= s < 2t
Normalise(n, m, exp) ==
    IF n < m THEN Normalise(2 * n, m, exp - 1)
    ELSE IF n >= 2 * m THEN Normalise(n, 2 * m, exp + 1)
    ELSE [s |-> n, t |-> m, exp |-> exp]

\* the first 54 bits of n / m (n, m positive, below 2^13) by long division,
\* and whether a remainder is left
QuotientBits(n, m) ==
    LET f == Normalise(n, m, 0)
        a0 == f.s * (Limb \div 2)
        b0 == (a0 % f.t) * Limb
        c0 == (b0 % f.t) * Limb
    IN  [q |-> <<a0 \div f.t, b0 \div f.t, c0 \div f.t>>, sticky |-> (c0 % f.t) # 0,
         exp |-> f.exp]

\* the double n / m of two integers, m positive
Quotient(n, m) ==
    IF n = 0 THEN DoubleZero
    ELSE LET b == QuotientBits(n, m) IN RoundNearestEven(b.q, b.sticky, b.exp)

\* d * 100 in four limbs, exactly
Hundredfold(d) ==
    LET c0 == d[3] * 100
        b0 == (d[2] * 100) + (c0 \div Limb)
        a0 == (d[1] * 100) + (b0 \div Limb)
    IN  <<a0 \div Limb, a0 % Limb, b0 % Limb, c0 % Limb>>

\* the double x * 100
Times100(x) ==
    IF x = DoubleZero THEN DoubleZero
    ELSE LET p == Hundredfold(x.d)
             k == IF p[1] >= 64 THEN 7 ELSE 6       \* the bits of the top limb
             low == Pow2(k)
             high == Limb \div low
         IN  RoundNearestEven(<<(p[1] * high) + (p[2] \div low),
                                ((p[2] % low) * high) + (p[3] \div low),
                                ((p[3] % low) * high) + (p[4] \div low)>>,
                              (p[4] % low) # 0, x.exp + k)

\* the integer part of x, for x below 2^29
Floor(x) ==
    IF x = DoubleZero \/ x.exp < 0 THEN 0
    ELSE LET sh == 53 - x.exp
         IN  IF sh >= 36 THEN x.d[1] \div Pow2(sh - 36)
             ELSE (x.d[1] * Pow2(36 - sh)) + (x.d[2] \div Pow2(sh - 18))

\* the integer part of 200 * x, for x below 2^13
FloorTimes200(x) ==
    IF x = DoubleZero THEN 0
    ELSE LET p == Hundredfold(x.d)
             sh == 52 - x.exp
         IN  IF sh >= 61 THEN 0
             ELSE IF sh >= 54 THEN p[1] \div Pow2(sh - 54)
             ELSE (p[1] * Pow2(54 - sh)) + (p[2] \div Pow2(sh - 36))

\* the ratio itself, not multiplied by 100
ScoreRatio(totalScore, maxScore) ==
    IF maxScore > 0 THEN Quotient(totalScore, maxScore) ELSE DoubleZero

\* maxScore > 0 ? (totalScore / maxScore) * 100 : 0
PercentageScore(totalScore, maxScore) ==
    IF maxScore > 0 THEN Times100(Quotient(totalScore, maxScore)) ELSE DoubleZero

\* percentageScore >= quiz.passingScore, the latter an integer
AtLeast(pct, p) == Floor(pct) >= p

\* quiz.passingScore ? percentageScore >= quiz.passingScore : true
Passed(passingScore, pct) ==
    IF passingScore = {} \/ passingScore = {0} THEN TRUE
    ELSE \A p \in passingScore : AtLeast(pct, p)

\* a DECIMAL(5, 2) column keeps hundredths: the number rounded half up
Decimal52(pct) == (FloorTimes200(pct) + 1) \div 2

\* the newest attempt of the rows, whoever made it
LatestAttempt(rows, id) == CHOOSE a \in rows : \A b \in rows : b.id <= a.id

\* `attempt`, the instance QuizAttempt.create returned to this request
OwnAttempt(rows, id) == CHOOSE a \in rows : a.id = id

\* the score is computed and attempt.update(...) stores it
SubmitUpdate(s) ==
    LET r == reqs[s]
        quizRow == CHOOSE z \in r.quiz.quiz : TRUE
        pct == PercentageScore(r.totalScore, r.maxScore)
        passed == Passed(quizRow.passingScore, pct)
        pending == r.tx.ins.attempts \cup db.rows.attempts
        old == OwnAttempt(pending, r.attempt)
        new == [old EXCEPT !.score = {r.totalScore}, !.maxScore = {r.maxScore},
                           !.percentageScore = {Decimal52(pct)}, !.passed = {passed}]
        w == Update(World(s), "attempts", old, new, AttemptUpdateOptions)
    IN  /\ IsSubmit(r) /\ r.pc = "updateAttempt"
        /\ db' = w.db
        /\ reqs' = [reqs EXCEPT ![s] =
                [r EXCEPT !.tx = w.tx, !.pc = "commit",
                          !.result = [score |-> r.totalScore, maxScore |-> r.maxScore,
                                      percentageScore |-> pct, passed |-> passed,
                                      timeSpentSeconds |-> old.timeSpentSeconds]]]
        /\ UNCHANGED <<resp, shuffleVars, viewVars>>

\* QuizAttempt.findByPk(attempt.id, { include }) and the 201
SubmitReadback(s) ==
    LET r == reqs[s]
    IN  /\ IsSubmit(r) /\ r.pc = "readback"
        /\ resp' = [resp EXCEPT ![s] =
                [status |-> 201, message |-> "submitted", op |-> r.op, made |-> r.attempt,
                 attempt |-> {a \in db.rows.attempts : a.id = r.attempt},
                 quiz |-> r.quiz, body |-> r.body, from |-> r.from,
                 result |-> r.result,
                 requiresLogin |-> (r.userId = 0 /\ r.result.passed)]]
        /\ reqs' = [reqs EXCEPT ![s] = Idle]
        /\ UNCHANGED <<db, shuffleVars, viewVars>>

----------------------------------------------------------------------------
(* getQuizById / getMockTestById *)

\* latest clock value
MaxNow == 1

RECURSIVE OrderedIds(_, _)
\* the ids of the rows S in ascending order of the column col, then of id
OrderedIds(S, col) ==
    IF S = {} THEN <<>>
    ELSE LET first == CHOOSE x \in S :
                        \A y \in S : x[col] < y[col] \/ (x[col] = y[col] /\ x.id <= y.id)
         IN  <<first.id>> \o OrderedIds(S \ {first}, col)

\* the questions by points, then id
QuestionsByPoints(tree) == OrderedIds(tree.questions, "points")

\* quiz.questions under order: [questions.position ASC]
QuestionsInOrder(tree) == OrderedIds(tree.questions, "position")

\* question.answers under order: [answers.id ASC]
AnswersInOrder(tree, questionId) ==
    OrderedIds({a \in tree.answers : a.questionId = questionId}, "id")

\* questions.slice(0, count) when questionCount parses to a positive number
SliceCount(questions, questionCount) ==
    IF questionCount > 0
    THEN SubSeq(questions, 1, IF questionCount < Len(questions) THEN questionCount
                              ELSE Len(questions))
    ELSE questions

RECURSIVE ShuffleAnswersFrom(_, _, _, _)
\* questions.map(question => shuffleArray(question.answers, random)) from
\* question k on: the one generator runs on from list to list
ShuffleAnswersFrom(tree, questions, k, h) ==
    IF k > Len(questions) THEN <<>>
    ELSE LET answers == AnswersInOrder(tree, questions[k])
             sh == IF answers # <<>> THEN ShuffleArray(answers, h)
                   ELSE [arr |-> answers, h |-> h]
         IN  <<sh.arr>> \o ShuffleAnswersFrom(tree, questions, k + 1, sh.h)

\* an answer with every column
AnswerWhole(tree, answerId) ==
    IF answerId = Undef THEN [id |-> Undef]
    ELSE CHOOSE x \in tree.answers : x.id = answerId

\* attributes: ['id', 'answerText'] of an answer; an undefined element of the
\* array (id Undef) is sent as null
AnswerView(tree, answerId) ==
    IF answerId = Undef THEN [id |-> Undef]
    ELSE LET a == CHOOSE x \in tree.answers : x.id = answerId
         IN  [id |-> a.id, answerText |-> a.answerText]

\* attributes: ['id', 'questionText', 'questionType', 'points', 'position'] of
\* a question, with its answers (given by their ids) and the position the view
\* gives it
QuestionView(tree, questionId, answers, position) ==
    LET q == CHOOSE x \in tree.questions : x.id = questionId
    IN  [id |-> q.id, questionText |-> q.questionText, questionType |-> q.questionType,
         points |-> q.points, position |-> position,
         answers |-> [k \in 1..Len(answers) |-> AnswerView(tree, answers[k])]]

\* req.userId || req.ip || 'anonymous'; the routes of the two views install no
\* authentication, so req.userId is never set; ip <<>> is a request without one
Requester(ip) == IF ip = <<>> THEN StrAnonymous ELSE ip

\* the seed of a request
SeedOf(q) == SeedString(Requester(q.ip), q.id, q.userSeed)

\* the body of getQuizById after the quiz was found: q is the request, tree
\* the quiz as loaded
AssembleView(q, tree) ==
    LET ordered == QuestionsInOrder(tree)
        randomized == q.randomize /\ Len(ordered) > 0
        seed == SeedOf(q)
        sh == ShuffleArray(ordered, SeedHash(seed))
        kept == IF randomized THEN SliceCount(sh.arr, q.questionCount) ELSE ordered
        answers == IF randomized /\ q.shuffleAnswers
                   THEN ShuffleAnswersFrom(tree, kept, 1, sh.h)
                   ELSE [k \in 1..Len(kept) |-> AnswersInOrder(tree, kept[k])]
        metadata == [totalAvailableQuestions |-> Len(ordered),
                     returnedQuestions |-> Len(kept),
                     randomized |-> q.randomize,
                     answersShuffled |-> q.shuffleAnswers,
                     seed |-> IF q.randomize THEN seed ELSE <<>>]
    IN  IF randomized /\ \E k \in 1..Len(kept) : kept[k] = Undef
        THEN \* question.answers / question.toJSON of undefined throws
             [status |-> 500, message |-> "Failed to get quiz"]
        ELSE [status |-> 200, message |-> "ok",
              questions |-> [k \in 1..Len(kept) |->
                  QuestionView(tree, kept[k], answers[k],
                               IF randomized THEN k - 1
                               ELSE (CHOOSE x \in tree.questions : x.id = kept[k]).position)],
              metadata |-> metadata]

\* the requests of the views: randomize and shuffleAnswers are the tests
\* === 'true', questionCount 0 is an absent one
ViewRequests ==
    [id : 1..MaxQuizId, ip : {<<>>, StrLoopback}, userSeed : UserSeeds,
     randomize : BOOLEAN, questionCount : {0, 1, 2, 3}, shuffleAnswers : BOOLEAN]

\* one view request, served from the committed store
GetView(q, mockOnly) ==
    LET found == FindQuiz(db.rows, q.id, mockOnly)
        tree == QuizTree(db.rows, q.id)
        out == IF found = {} THEN NotFound("Quiz not found") ELSE AssembleView(q, tree)
        again == IF view = NoResponse THEN FALSE
                 ELSE view.request = q /\ view.mock = mockOnly /\ view.tree = tree
    IN  /\ view' = [request |-> q, mock |-> mockOnly, tree |-> tree, out |-> out,
                    at |-> now, first |-> IF again THEN view.first ELSE now]
        /\ UNCHANGED <<now, sched, storeVars, shuffleVars>>

GetQuizById(q) == GetView(q, FALSE)

GetMockTestById(q) == GetView(q, TRUE)

\* time passes
Tick ==
    /\ now < MaxNow
    /\ now' = now + 1
    /\ UNCHANGED <<view, sched, storeVars, shuffleVars>>

----------------------------------------------------------------------------
(* Steps shared by the transactional handlers *)

\* the positions at which the handler awaits a persistence call inside try
Awaiting ==
    {"createRoot", "createQuestion", "createAnswer", "commit", "readback",
     "findQuiz", "countAttempts", "findQuestions", "destroyAnswers", "destroyQuestions",
     "destroyQuiz", "createAttempt", "createUserAnswer", "updateAttempt"}

\* await transaction.rollback() on a validation path, then the response
Rollback(s) ==
    LET r == reqs[s]
        w == RollbackTx(World(s))
    IN  /\ r.op # "idle" /\ r.pc = "rollback"
        /\ db' = w.db
        /\ resp' = [resp EXCEPT ![s] = Reply(r, r.out)]
        /\ reqs' = [reqs EXCEPT ![s] = Idle]
        /\ UNCHANGED <<shuffleVars, viewVars>>

\* await transaction.commit(); deleteQuiz answers 200 right after it, the
\* other handlers read their result back first
Commit(s) ==
    LET r == reqs[s]
        w == CommitTx(World(s))
    IN  /\ r.op # "idle" /\ r.pc = "commit"
        /\ db' = w.db
        /\ IF IsDelete(r)
           THEN /\ resp' = [resp EXCEPT ![s] =
                        [status |-> 200, message |-> "deleted", op |-> r.op, made |-> r.id,
                         mock |-> r.op = "deleteMockTest", before |-> r.before]]
                /\ reqs' = [reqs EXCEPT ![s] = Idle]
           ELSE /\ resp' = resp
                /\ reqs' = [reqs EXCEPT ![s] = [r EXCEPT !.tx = w.tx, !.pc = "readback"]]
        /\ UNCHANGED <<shuffleVars, viewVars>>

\* a persistence call inside try rejects and control passes to catch:
\* await transaction.rollback(), then the 500.  Rolling back a transaction
\* that has been committed rejects in turn, and no response is sent.
Catch(s) ==
    LET r == reqs[s]
        w == RollbackTx(World(s))
    IN  /\ r.op # "idle" /\ r.pc \in Awaiting \cup {"catch"}
        /\ IF r.tx.state = "open"
           THEN /\ db' = w.db
                /\ resp' = [resp EXCEPT ![s] = Reply(r, ServerError("Failed"))]
           ELSE /\ db' = db
                /\ resp' = [resp EXCEPT ![s] = Reply(r, NoResponse)]
        /\ reqs' = [reqs EXCEPT ![s] = Idle]
        /\ UNCHANGED <<shuffleVars, viewVars>>

\* Quiz.findByPk(quiz.id, { include }) and the 201
CreateReadback(s) ==
    LET r == reqs[s]
    IN  /\ IsCreate(r) /\ r.pc = "readback"
        /\ resp' = [resp EXCEPT ![s] =
                [status |-> 201, message |-> "created", op |-> r.op, made |-> r.quizId,
                 data |-> QuizTree(db.rows, r.quizId)]]
        /\ reqs' = [reqs EXCEPT ![s] = Idle]
        /\ UNCHANGED <<db, shuffleVars, viewVars>>

Next ==
    \/ \E s \in Slots, mock \in BOOLEAN, def \in ValidDefinitions : CreateStart(s, mock, def)
    \/ \E s \in Slots : CreateBegin(s)
    \/ \E s \in Slots : CreateRoot(s)
    \/ \E s \in Slots : CreateQuestion(s)
    \/ \E s \in Slots : CreateAnswer(s)
    \/ \E s \in Slots : CreateReadback(s)
    \/ \E s \in Slots, mock \in BOOLEAN, id \in 1..MaxQuizId : DeleteStart(s, mock, id)
    \/ \E s \in Slots : DeleteBegin(s)
    \/ \E s \in Slots : DeleteFind(s)
    \/ \E s \in Slots : DeleteCount(s)
    \/ \E s \in Slots : DeleteFindQuestions(s)
    \/ \E s \in Slots : DeleteAnswers(s)
    \/ \E s \in Slots : DeleteQuestions(s)
    \/ \E s \in Slots : DeleteQuizRow(s)
    \/ \E s \in Slots : SubmitRequest(s)
    \/ \E s \in Slots : SubmitBegin(s)
    \/ \E s \in Slots : SubmitFind(s)
    \/ \E s \in Slots : SubmitCreateAttempt(s)
    \/ \E s \in Slots : SubmitUserAnswer(s)
    \/ \E s \in Slots : SubmitUpdate(s)
    \/ \E s \in Slots : SubmitReadback(s)
    \/ \E s \in Slots : Rollback(s)
    \/ \E s \in Slots : Commit(s)
    \/ \E s \in Slots : Catch(s)

Init ==
    /\ StoreIdle
    /\ seedIn = <<>> /\ arrayIn = <<>> /\ hash = 0 /\ shuffled = <<>>
    /\ idx = 0 /\ calls = 0 /\ spc = "off"

Spec == Init /\ [][Next]_vars

\* the quiz views of quizzes that were authored before and stay unchanged
AuthorForView(s) ==
    /\ view = NoResponse
    /\ \E mock \in BOOLEAN, def \in ViewDefinitions : CreateStart(s, mock, def)

\* no handler is running
Quiescent == \A s \in Slots : reqs[s] = Idle

\* a client asks for a view, or asks again for the one it got last
FirstOrRepeated(q) == IF view = NoResponse THEN TRUE ELSE view.request = q

ServeQuiz(q) == Quiescent /\ FirstOrRepeated(q) /\ GetQuizById(q)

ServeMockTest(q) == Quiescent /\ FirstOrRepeated(q) /\ GetMockTestById(q)

NextView ==
    \/ \E s \in Slots : AuthorForView(s)
    \/ \E s \in Slots : CreateBegin(s)
    \/ \E s \in Slots : CreateRoot(s)
    \/ \E s \in Slots : CreateQuestion(s)
    \/ \E s \in Slots : CreateAnswer(s)
    \/ \E s \in Slots : Commit(s)
    \/ \E s \in Slots : CreateReadback(s)
    \/ \E q \in ViewRequests : ServeQuiz(q)
    \/ \E q \in ViewRequests : ServeMockTest(q)
    \/ Tick

SpecView == Init /\ [][NextView]_vars

\* authoring on its own, with every definition
NextAuthoring ==
    \/ \E s \in Slots, mock \in BOOLEAN, def \in Definitions : CreateStart(s, mock, def)
    \/ \E s \in Slots : CreateBegin(s)
    \/ \E s \in Slots : CreateRoot(s)
    \/ \E s \in Slots : CreateQuestion(s)
    \/ \E s \in Slots : CreateAnswer(s)
    \/ \E s \in Slots : CreateReadback(s)
    \/ \E s \in Slots, mock \in BOOLEAN, id \in 1..MaxQuizId : DeleteStart(s, mock, id)
    \/ \E s \in Slots : DeleteBegin(s)
    \/ \E s \in Slots : DeleteFind(s)
    \/ \E s \in Slots : DeleteCount(s)
    \/ \E s \in Slots : DeleteFindQuestions(s)
    \/ \E s \in Slots : DeleteAnswers(s)
    \/ \E s \in Slots : DeleteQuestions(s)
    \/ \E s \in Slots : DeleteQuizRow(s)
    \/ \E s \in Slots : Rollback(s)
    \/ \E s \in Slots : Commit(s)
    \/ \E s \in Slots : Catch(s)

SpecAuthoring == Init /\ [][NextAuthoring]_vars

----------------------------------------------------------------------------
(* Grading on its own: one quiz, a submission, and the same submission again
   without the entries that name no question of the quiz *)

StrParis == <<80, 97, 114, 105, 115>>               \* "Paris"
StrParisSpace == <<112, 97, 114, 105, 115, 32>>     \* "paris "
StrRome == <<82, 111, 109, 101>>                    \* "Rome"
StrParisShout == <<32, 80, 65, 82, 73, 83, 32>>     \* " PARIS "
StrRomeLower == <<114, 111, 109, 101>>              \* "rome"
StrSpace == <<32>>                                  \* " "

\* a single_choice question (answers 1 correct, 2 incorrect), a true_false
\* question (answers 3 incorrect, 4 correct) and a fill_blank question
\* (answers 5 "Paris", 6 "paris " and 8 " " correct, 7 "Rome" incorrect)
DefGrade ==
    QuizDef(<<84, 71>>, {50},
        Arr(<<Qn(StrQ, "single_choice", 2, TwoOptions),
              Qn(StrQ, "true_false", 3, Arr(<<Ans(StrOptA, "false"), Ans(StrOptB, "true")>>)),
              Qn(StrQ, "fill_blank", 5,
                 Arr(<<Ans(StrParis, "true"), Ans(StrParisSpace, "true"),
                       Ans(StrRome, "false"), Ans(StrSpace, "true")>>))>>))

\* two clients
GradeSlots == {1, 2}

\* an answer id no row of quiz_answers has
UnknownAnswerId == 9

\* the entries the clients send: a question of the quiz or none; no answerId,
\* one of the first or of another question, or one of no answer at all; no
\* text, a text, or a value that is no string
GradeEntries ==
    {Entry(q, a, t) : q \in {1, 2, 3, UnknownId}, a \in {0, 1, 2, 4, 5, UnknownAnswerId},
                      t \in {<<>>, StrParisShout, StrRomeLower, NotAString}}

GradeBodies ==
    {[quizId |-> 1, startedAt |-> 1, answers |-> Arr(l)] : l \in SeqsUpTo(GradeEntries, MaxSubs)}

RECURSIVE OfQuiz(_, _)
\* the entries of items that name a question of the quiz, in their order
OfQuiz(quiz, items) ==
    IF items = <<>> THEN <<>>
    ELSE (IF Head(items).questionId \in {q.id : q \in quiz.questions}
          THEN <<Head(items)>> ELSE <<>>)
         \o OfQuiz(quiz, Tail(items))

InitGrade ==
    /\ db = EmptyDb
    /\ reqs = [s \in GradeSlots |-> Idle]
    /\ resp = [s \in GradeSlots |-> NoResponse]
    /\ view = NoResponse
    /\ now = 0
    /\ sched = NoSchedule
    /\ seedIn = <<>> /\ arrayIn = <<>> /\ hash = 0 /\ shuffled = <<>>
    /\ idx = 0 /\ calls = 0 /\ spc = "off"

\* the quiz is authored once, as a lesson quiz or as a mock test
AuthorForGrade(s) ==
    /\ s = 1 /\ db.nextId.quizzes = 1
    /\ \E mock \in BOOLEAN : CreateStart(s, mock, DefGrade)

\* the first client submits once, when the quiz is there
SubmitForGrade(s) ==
    /\ s = 1 /\ reqs[s] = Idle /\ db.rows.quizzes # {} /\ db.nextId.attempts = 1
    /\ IF resp[s] = NoResponse THEN FALSE ELSE resp[s].op \in {"createQuiz", "createMockTest"}
    /\ \E mock \in BOOLEAN, userId \in {0, 1}, body \in GradeBodies :
            SubmitStart(s, mock, body, userId)

\* the second client sends what the first one sent, less the entries that
\* name no question of the quiz
SubmitAgainWithout(s) ==
    /\ s = 2 /\ reqs[s] = Idle /\ db.nextId.attempts = 2
    /\ IF resp[1] = NoResponse THEN FALSE
       ELSE /\ resp[1].status = 201 /\ resp[1].op \in {"submitQuizAttempt", "submitMockTestAttempt"}
            /\ SubmitStart(s, resp[1].op = "submitMockTestAttempt",
                    [resp[1].body EXCEPT !.answers.items = OfQuiz(resp[1].quiz, @)],
                    0)

\* control reaches catch because the handler's own code threw
Thrown(s) == reqs[s].pc = "catch" /\ Catch(s)

NextGrade ==
    \/ \E s \in GradeSlots : AuthorForGrade(s)
    \/ \E s \in GradeSlots : CreateBegin(s)
    \/ \E s \in GradeSlots : CreateRoot(s)
    \/ \E s \in GradeSlots : CreateQuestion(s)
    \/ \E s \in GradeSlots : CreateAnswer(s)
    \/ \E s \in GradeSlots : CreateReadback(s)
    \/ \E s \in GradeSlots : SubmitForGrade(s)
    \/ \E s \in GradeSlots : SubmitAgainWithout(s)
    \/ \E s \in GradeSlots : SubmitBegin(s)
    \/ \E s \in GradeSlots : SubmitFind(s)
    \/ \E s \in GradeSlots : SubmitCreateAttempt(s)
    \/ \E s \in GradeSlots : SubmitUserAnswer(s)
    \/ \E s \in GradeSlots : SubmitUpdate(s)
    \/ \E s \in GradeSlots : SubmitReadback(s)
    \/ \E s \in GradeSlots : Rollback(s)
    \/ \E s \in GradeSlots : Commit(s)
    \/ \E s \in GradeSlots : Thrown(s)

SpecGrade == InitGrade /\ [][NextGrade]_vars

----------------------------------------------------------------------------
(* getQuizAttempt / getMockTestAttempt behind optionalAuth *)

\* the users table: 1 a student, 2 an instructor, 3 an admin; "" for no such user
UserRole(id) ==
    CASE id = 1 -> "student" [] id = 2 -> "instructor" [] id = 3 -> "admin" [] OTHER -> ""

\* the Authorization header: none, a token that does not verify, or a valid
\* token of user id (user 4 has been removed since)
Tokens ==
    {[kind |-> "none", id |-> 0], [kind |-> "invalid", id |-> 1]}
    \cup {[kind |-> "valid", id |-> u] : u \in 1..4}

\* optionalAuth: req.userId and req.userRole after the middleware
OptionalAuth(token) ==
    IF token.kind = "valid"
    THEN [userId |-> token.id, userRole |-> UserRole(token.id)]
    ELSE [userId |-> 0, userRole |-> ""]

Forbidden(msg) == [status |-> 403, message |-> msg]

\* an authorization test that knows no admin
NotOwner(attempt, req) == attempt.userId # 0 /\ attempt.userId # req.userId

\* attempt.userId && (!userId || (attempt.userId !== userId && req.userRole !== 'admin'))
NotAuthorized(attempt, req) ==
    attempt.userId # 0
    /\ (req.userId = 0 \/ (attempt.userId # req.userId /\ req.userRole # "admin"))

\* QuizAttempt.findByPk(id, { include }) of getQuizAttempt, and
\* QuizAttempt.findOne({ where: { id }, include: [{ model: Quiz, where: { lessonId: null } }] })
\* of getMockTestAttempt
FindAttempt(rows, id, mockOnly) ==
    {a \in rows.attempts :
        /\ a.id = id
        /\ mockOnly => \E z \in rows.quizzes : z.id = a.quizId /\ z.lessonId = 0}

\* one read of an attempt, served from the committed store
GetAttempt(id, token, mockOnly) ==
    LET req == OptionalAuth(token)
        found == FindAttempt(db.rows, id, mockOnly)
        out == IF found = {} THEN NotFound("Quiz attempt not found")
               ELSE IF NotAuthorized(CHOOSE a \in found : TRUE, req)
                    THEN Forbidden("Not authorized to view this attempt")
                    ELSE [status |-> 200, message |-> "ok", data |-> found]
    IN  /\ view' = [op |-> IF mockOnly THEN "getMockTestAttempt" ELSE "getQuizAttempt",
                    id |-> id, token |-> token, attempt |-> found, out |-> out]
        /\ UNCHANGED <<now, sched, storeVars, shuffleVars>>

GetQuizAttempt(id, token) == Quiescent /\ GetAttempt(id, token, FALSE)

GetMockTestAttempt(id, token) == Quiescent /\ GetAttempt(id, token, TRUE)

\* the quiz whose attempts are read
AuthorForRead(s) ==
    /\ db.nextId.quizzes = 1
    /\ \E mock \in BOOLEAN : CreateStart(s, mock, DefTwo)

\* a submission by nobody, by user 1 or by user 2
SubmitForRead(s) ==
    /\ reqs[s] = Idle /\ db.rows.quizzes # {} /\ db.nextId.attempts <= MaxAttemptId
    /\ view = NoResponse
    /\ \E mock \in BOOLEAN, userId \in 0..2,
          l \in {<<>>, <<Entry(1, 1, <<>>)>>, <<Entry(1, 2, <<>>)>>} :
            SubmitStart(s, mock, [quizId |-> 1, startedAt |-> 1, answers |-> Arr(l)], userId)

NextRead ==
    \/ \E s \in Slots : AuthorForRead(s)
    \/ \E s \in Slots : CreateBegin(s)
    \/ \E s \in Slots : CreateRoot(s)
    \/ \E s \in Slots : CreateQuestion(s)
    \/ \E s \in Slots : CreateAnswer(s)
    \/ \E s \in Slots : CreateReadback(s)
    \/ \E s \in Slots : SubmitForRead(s)
    \/ \E s \in Slots : SubmitBegin(s)
    \/ \E s \in Slots : SubmitFind(s)
    \/ \E s \in Slots : SubmitCreateAttempt(s)
    \/ \E s \in Slots : SubmitUserAnswer(s)
    \/ \E s \in Slots : SubmitUpdate(s)
    \/ \E s \in Slots : SubmitReadback(s)
    \/ \E s \in Slots : Rollback(s)
    \/ \E s \in Slots : Commit(s)
    \/ \E id \in 1..(MaxAttemptId + 1), token \in Tokens : GetQuizAttempt(id, token)
    \/ \E id \in 1..(MaxAttemptId + 1), token \in Tokens : GetMockTestAttempt(id, token)

SpecRead == Init /\ [][NextRead]_vars

----------------------------------------------------------------------------
(* The shuffle on its own: createSeededRandom(seed), then shuffleArray *)

InitShuffle ==
    /\ seedIn \in Seeds
    /\ \E n \in 0..MaxLen : arrayIn = [k \in 1..n |-> k]
    /\ hash = 0
    /\ shuffled = <<>>
    /\ idx = 0
    /\ calls = 0
    /\ spc = "hashing"
    /\ StoreIdle

\* one character of the for-loop of createSeededRandom
SeedChar ==
    /\ spc = "hashing"
    /\ idx < Len(seedIn)
    /\ hash' = HashStep(hash, seedIn[idx + 1])
    /\ idx' = idx + 1
    /\ UNCHANGED <<seedIn, arrayIn, shuffled, calls, spc>>
    /\ UNCHANGED <<storeVars, viewVars>>

\* createSeededRandom returns; shuffleArray copies its argument
BeginShuffle ==
    /\ spc = "hashing"
    /\ idx = Len(seedIn)
    /\ shuffled' = SpreadArray(arrayIn)
    /\ idx' = Len(arrayIn) - 1
    /\ spc' = "shuffling"
    /\ UNCHANGED <<seedIn, arrayIn, hash, calls>>
    /\ UNCHANGED <<storeVars, viewVars>>

\* one iteration of the loop of shuffleArray
ShuffleStep ==
    /\ spc = "shuffling"
    /\ idx > 0
    /\ LET st == ShuffleIter([a |-> shuffled, h |-> hash, i |-> idx])
       IN  /\ shuffled' = st.a
           /\ hash' = st.h
           /\ idx' = st.i
    /\ calls' = calls + 1
    /\ UNCHANGED <<seedIn, arrayIn, spc>>
    /\ UNCHANGED <<storeVars, viewVars>>

\* return shuffled
EndShuffle ==
    /\ spc = "shuffling"
    /\ idx <= 0
    /\ spc' = "done"
    /\ UNCHANGED <<seedIn, arrayIn, hash, shuffled, idx, calls>>
    /\ UNCHANGED <<storeVars, viewVars>>

NextShuffle == SeedChar \/ BeginShuffle \/ ShuffleStep \/ EndShuffle

SpecShuffle == InitShuffle /\ [][NextShuffle]_vars

\* the array shuffleArray returned
Returned == ArrayOf(shuffled, Len(arrayIn))

IsPermutation(out, in) ==
    /\ Len(out) = Len(in)
    /\ \A k \in 1..Len(in) : Cardinality({m \in 1..Len(out) : out[m] = in[k]}) = 1
    /\ \A m \in 1..Len(out) : \E k \in 1..Len(in) : out[m] = in[k]

\* C1: for every seed and every input array, shuffleArray driven by
\* createSeededRandom(seed) returns a permutation of its input: every element
\* exactly once and nothing else (no undefined slot).
C1_ShuffleIsPermutation == spc = "done" => IsPermutation(Returned, arrayIn)

\* C2: every state of the generator after a step is an integer in 0..233279,
\* so every emitted value hash / 233280 lies in [0, 1), also when the 32-bit
\* hash of the seed is negative.
C2_GeneratorInUnitInterval == calls > 0 => hash \in 0..(LcgMod - 1)

----------------------------------------------------------------------------
(* Quiz views *)

\* the view is the answer to a randomized request for a quiz that was found
RandomizedView == IF view = NoResponse THEN FALSE
                  ELSE view.request.randomize /\ view.out.status # 404

\* C3: for a quiz with n questions, a view with randomize=true and a positive
\* questionCount k succeeds and returns exactly min(k, n) questions, all
\* distinct questions of that quiz, with positions 0, 1, ..., min(k, n) - 1
\* in the returned order
C3_RandomizedSubset ==
    (RandomizedView /\ view.request.questionCount > 0) =>
        LET n == Cardinality(view.tree.questions)
            k == view.request.questionCount
            m == IF k < n THEN k ELSE n
            qs == view.out.questions
        IN  /\ view.out.status = 200
            /\ Len(qs) = m
            /\ \A a \in 1..m : \E x \in view.tree.questions : x.id = qs[a].id
            /\ \A a, b \in 1..m : qs[a].id = qs[b].id => a = b
            /\ \A a \in 1..m : qs[a].position = a - 1

----------------------------------------------------------------------------
(* Submissions, deletions and creations *)

\* the responses of slot s to a submission, a deletion, a creation
SubmitReply(s) ==
    IF resp[s] = NoResponse THEN FALSE
    ELSE resp[s].op \in {"submitQuizAttempt", "submitMockTestAttempt"}

DeleteReply(s) ==
    IF resp[s] = NoResponse THEN FALSE ELSE resp[s].op \in {"deleteQuiz", "deleteMockTest"}

CreateReply(s) ==
    IF resp[s] = NoResponse THEN FALSE ELSE resp[s].op \in {"createQuiz", "createMockTest"}

\* the rows of a table that were made since the request of resp[s] arrived
MadeSince(s, table) == {x \in db.rows[table] : x.id >= resp[s].from[table]}

\* C5: a submission that failed (the 500 of the catch block) leaves no Attempt
\* and no UserAnswer of its own in the store once the request has ended
C5_FailedSubmitLeavesNothing ==
    \A s \in Slots :
        (SubmitReply(s) /\ resp[s].status = 500) =>
            MadeSince(s, "attempts") = {} /\ MadeSince(s, "userAnswers") = {}

\* a submission failed after it had created its attempt and a UserAnswer
C5_Witness ==
    \E s \in Slots :
        /\ SubmitReply(s) /\ resp[s].status = 500
        /\ resp[s].made > 0
        /\ db.nextId.userAnswers > resp[s].from.userAnswers

C7_RejectedCreateLeavesNothing ==
    \A s \in Slots :
        (CreateReply(s) /\ resp[s].status = 400) =>
            /\ MadeSince(s, "quizzes") = {}
            /\ MadeSince(s, "questions") = {}
            /\ MadeSince(s, "answers") = {}

\* a creation was rejected for its second question's second answer, after the
\* quiz, both questions and three answers had been written in the transaction
C7_Witness ==
    \E s \in Slots :
        /\ CreateReply(s) /\ resp[s].status = 400
        /\ resp[s].made > 0
        /\ db.nextId.questions = resp[s].from.questions + 2
        /\ db.nextId.answers = resp[s].from.answers + 3

\* the one element of a set of one
Only(S) == CHOOSE x \in S : TRUE

\* the attempt of a 201 agrees with the result beside it in score, maxScore
\* and passed
StoredAgrees(a) ==
    \A t \in a.attempt :
        /\ t.score = {a.result.score}
        /\ t.maxScore = {a.result.maxScore}
        /\ t.passed = {a.result.passed}

C9_PassedIffAtLeastPassingScore ==
    \A s \in Slots :
        (SubmitReply(s) /\ resp[s].status = 201) =>
            \A t \in resp[s].attempt :
                LET score == Only(t.score)
                    maxScore == Only(t.maxScore)
                    passingScore == Only(resp[s].quiz.quiz).passingScore
                    atLeast == \A p \in passingScore :
                                   IF maxScore > 0 THEN 100 * score >= p * maxScore
                                   ELSE 0 >= p
                IN  /\ t.passed = {passingScore = {} \/ atLeast}
                    /\ resp[s].result.passed = (passingScore = {} \/ atLeast)

RECURSIVE SumOfPoints(_)
\* the sum of the points of the questions Q
SumOfPoints(Q) ==
    IF Q = {} THEN 0
    ELSE LET q == CHOOSE x \in Q : TRUE IN q.points + SumOfPoints(Q \ {q})

\* C10: the maxScore of an attempt is the sum of the points of all questions
\* of the quiz it was submitted to
C10_MaxScoreIsQuizTotal ==
    \A s \in Slots :
        (SubmitReply(s) /\ resp[s].status = 201) =>
            /\ resp[s].result.maxScore = SumOfPoints(resp[s].quiz.questions)
            /\ \A t \in resp[s].attempt :
                t.maxScore = {SumOfPoints(resp[s].quiz.questions)}

----------------------------------------------------------------------------
(* UserAnswers of a submission; lookup modes *)

\* the UserAnswers in the store that belong to the attempt of resp[s]
UserAnswersOf(s) == {u \in db.rows.userAnswers : u.attemptId = resp[s].made}

\* C11: after a submission the attempt has exactly one UserAnswer for each
\* question of the quiz that the submission names, and none for a question
\* id that is not of the quiz, also when a question is named more than once
C11_OneUserAnswerPerQuestion ==
    \A s \in Slots :
        (SubmitReply(s) /\ resp[s].status = 201) =>
            LET items == resp[s].body.answers.items
                named == {items[i].questionId : i \in 1..Len(items)}
                ofQuiz == {q.id : q \in resp[s].quiz.questions}
            IN  /\ \A q \in named \cap ofQuiz :
                    Cardinality({u \in UserAnswersOf(s) : u.questionId = q}) = 1
                /\ \A u \in UserAnswersOf(s) : u.questionId \in named \cap ofQuiz

\* C17: a view asked of the lesson-quiz operation for a standalone mock test
\* (lessonId null), or of the mock-test operation for a lesson quiz, is
\* answered NotFound
C17_CrossModeNotFound ==
    IF view = NoResponse THEN TRUE
    ELSE \A z \in view.tree.quiz :
            (view.mock # (z.lessonId = 0)) => view.out.status = 404

----------------------------------------------------------------------------
(* Grading of the entries of a submission *)

\* both clients were answered 201
BothGraded ==
    /\ SubmitReply(1) /\ SubmitReply(2)
    /\ resp[1].status = 201 /\ resp[2].status = 201

\* C12: an entry whose questionId is no question of the quiz is ignored: the
\* submission has the score, maxScore, percentageScore and passed of the same
\* submission without that entry, and no UserAnswer is stored for the entry
C12_UnknownQuestionIgnored ==
    BothGraded =>
        /\ resp[1].result.score = resp[2].result.score
        /\ resp[1].result.maxScore = resp[2].result.maxScore
        /\ resp[1].result.percentageScore = resp[2].result.percentageScore
        /\ resp[1].result.passed = resp[2].result.passed
        /\ \A a \in resp[1].attempt, b \in resp[2].attempt :
                /\ a.score = b.score /\ a.maxScore = b.maxScore
                /\ a.percentageScore = b.percentageScore /\ a.passed = b.passed
        /\ Cardinality(UserAnswersOf(1)) = Cardinality(UserAnswersOf(2))
        /\ \A u \in db.rows.userAnswers : u.questionId \in {q.id : q \in resp[1].quiz.questions}

\* the first client named a foreign question beside one it answered correctly,
\* and the second client's list is the shorter one
C12_Witness ==
    /\ BothGraded
    /\ Len(resp[2].body.answers.items) = 1
    /\ Len(resp[1].body.answers.items) = 2
    /\ resp[1].result.score > 0

\* the question of a stored UserAnswer
QuestionOfUserAnswer(u) == Only({q \in db.rows.questions : q.id = u.questionId})

\* C13: for a question that is not fill_blank, a processed entry is marked
\* correct and earns the question's points exactly when its answerId is an
\* answer of that same question flagged correct; otherwise it is marked
\* incorrect and earns 0 (so for a correct answer of another question)
C13_ChoiceCorrectIffOwnCorrectAnswer ==
    \A s \in GradeSlots :
        (SubmitReply(s) /\ resp[s].status = 201) =>
            \A u \in UserAnswersOf(s) :
                LET question == QuestionOfUserAnswer(u)
                    own == \E a \in db.rows.answers :
                                a.id = u.answerId /\ a.questionId = u.questionId /\ a.isCorrect
                IN  question.questionType # "fill_blank" =>
                        /\ u.isCorrect = own
                        /\ u.pointsEarned = (IF own THEN question.points ELSE 0)

\* answer 4, the correct answer of question 2, was given for question 1 (0
\* points) and for question 2 (3 points)
C13_Witness ==
    /\ SubmitReply(1) /\ resp[1].status = 201
    /\ \E u, v \in UserAnswersOf(1) :
        /\ u.questionId = 1 /\ u.answerId = 4 /\ ~u.isCorrect /\ u.pointsEarned = 0
        /\ v.questionId = 2 /\ v.answerId = 4 /\ v.isCorrect /\ v.pointsEarned = 3

\* the text matches a correct answer of the question, both lower-cased and trimmed
MatchesCorrectText(u) ==
    \E a \in db.rows.answers :
        /\ a.questionId = u.questionId /\ a.isCorrect
        /\ Trim(ToLowerCase(u.textAnswer)) = Trim(ToLowerCase(a.answerText))

\* C14 as stated: for a fill_blank question a processed entry is marked correct
\* exactly when its textAnswer, lower-cased and trimmed, equals the lower-cased
\* and trimmed text of a correct answer of the question
C14_FillBlankCorrectIffTextMatches ==
    \A s \in GradeSlots :
        (SubmitReply(s) /\ resp[s].status = 201) =>
            \A u \in UserAnswersOf(s) :
                QuestionOfUserAnswer(u).questionType = "fill_blank" =>
                    u.isCorrect = MatchesCorrectText(u)

\* C14 amended: for a fill_blank question a processed entry is marked correct
\* (and earns the question's points) exactly when its textAnswer is not empty
\* and, lower-cased and trimmed, equals the lower-cased and trimmed text of a
\* correct answer of the question; the answerId plays no part
C14_FillBlankCorrectIffNonEmptyTextMatches ==
    \A s \in GradeSlots :
        (SubmitReply(s) /\ resp[s].status = 201) =>
            \A u \in UserAnswersOf(s) :
                LET question == QuestionOfUserAnswer(u)
                    match == u.textAnswer # <<>> /\ MatchesCorrectText(u)
                IN  question.questionType = "fill_blank" =>
                        /\ u.isCorrect = match
                        /\ u.pointsEarned = (IF match THEN question.points ELSE 0)

\* " PARIS " was marked correct for the fill_blank question, and an entry
\* with answer 5 ("Paris") but no text was marked incorrect
C14_Witness ==
    /\ SubmitReply(1) /\ resp[1].status = 201
    /\ \E u, v \in UserAnswersOf(1) :
        /\ u.questionId = 3 /\ u.textAnswer = StrParisShout /\ u.isCorrect /\ u.pointsEarned = 5
        /\ v.questionId = 3 /\ v.textAnswer = <<>> /\ v.answerId = 5 /\ ~v.isCorrect

\* C15: with quizId, startedAt and the answers array present and the quiz
\* found, the submission is answered 201 whatever its entries are
C15_GradingNeverFails ==
    \A s \in GradeSlots : SubmitReply(s) => resp[s].status \in {201, 404}

\* the body of the submission resp[s] answers
BodyOf(s) == IF resp[s].status = 201 THEN resp[s].body ELSE Only(resp[s].body)

\* C16: a submission without quizId, startedAt or an answers array is answered
\* 400 and makes no attempt; one with all three and an empty array is not
\* answered 400, and when it is answered 201 it has made exactly one attempt,
\* with score 0, maxScore 0, percentageScore 0 and no UserAnswers
C16_MissingFieldsRejectedEmptyAccepted ==
    \A s \in Slots :
        SubmitReply(s) =>
            LET body == BodyOf(s)
                incomplete == body.quizId = 0 \/ body.startedAt = 0 \/ ~body.answers.isArray
            IN  /\ incomplete => (resp[s].status = 400 /\ MadeSince(s, "attempts") = {})
                /\ (~incomplete /\ body.answers.items = <<>>) =>
                        /\ resp[s].status # 400
                        /\ resp[s].status = 201 =>
                            /\ Cardinality(MadeSince(s, "attempts")) = 1
                            /\ MadeSince(s, "attempts") = resp[s].attempt
                            /\ \A t \in resp[s].attempt :
                                /\ t.score = {0} /\ t.maxScore = {0}
                                /\ t.percentageScore = {0}
                            /\ resp[s].result.percentageScore = DoubleZero
                            /\ UserAnswersOf(s) = {}

\* an empty answers array was accepted and its attempt is in the store
C16_Witness ==
    \E s \in Slots :
        /\ SubmitReply(s) /\ resp[s].status = 201
        /\ resp[s].body.answers.items = <<>>
        /\ \E t \in db.rows.attempts : t.id = resp[s].made /\ t.maxScore = {0}

----------------------------------------------------------------------------
(* Reading an attempt back *)

\* an attempt was read and found
AttemptRead == IF view = NoResponse THEN FALSE ELSE view.out.status # 404

\* C18: an attempt without an owning user is returned to every caller,
\* authenticated or not; an attempt with an owning user is returned when the
\* caller holds a valid token of that user or of an admin, and every other
\* caller (no or an invalid token, or another user who is no admin) gets 403
C18_OwnedAttemptReadByOwnerOrAdmin ==
    AttemptRead =>
        \A a \in view.attempt :
            LET token == view.token
                owner == token.kind = "valid" /\ token.id = a.userId
                admin == token.kind = "valid" /\ UserRole(token.id) = "admin"
            IN  IF a.userId = 0 \/ owner \/ admin
                THEN view.out.status = 200 /\ view.out.data = {a}
                ELSE view.out.status = 403

\* the attempt of user 1 was refused to a caller without a token
C18_Witness ==
    /\ AttemptRead
    /\ view.token.kind = "none"
    /\ view.out.status = 403
    /\ \E a \in view.attempt : a.userId = 1

----------------------------------------------------------------------------
(* What a quiz view shows *)

\* the quiz with every answer flagged incorrect and every explanation removed
Redact(tree) ==
    [tree EXCEPT !.questions = {[q EXCEPT !.explanation = <<>>] : q \in @},
                 !.answers = {[a EXCEPT !.isCorrect = FALSE, !.explanation = <<>>] : a \in @}]

\* C19: the view of getQuizById / getMockTestById is the view of the quiz with
\* all correctness flags and explanations blanked, so two quizzes that differ
\* only in those get identical views for the same request, with and without
\* randomize and shuffleAnswers
C19_ViewHidesCorrectnessAndExplanations ==
    IF view = NoResponse THEN TRUE
    ELSE view.out.status # 404 =>
            view.out = AssembleView(view.request, Redact(view.tree))

\* a quiz with correct answers and explanations was shown with its questions
\* and answers shuffled
C19_Witness ==
    IF view = NoResponse THEN FALSE
    ELSE /\ view.out.status = 200
         /\ view.request.randomize /\ view.request.shuffleAnswers
         /\ Len(view.out.questions) > 1
         /\ \E q \in view.tree.questions : q.explanation # <<>>
         /\ \E a \in view.tree.answers : a.isCorrect /\ a.explanation # <<>>

\* the definition a quiz of the view runs was created from (their titles differ)
DefinitionOf(tree) ==
    CHOOSE def \in ViewDefinitions : \A z \in tree.quiz : z.title = def.title

\* the view shows the questions of the definition in the order of its
\* questions array, the i-th at position i - 1, each with the answers of the
\* definition in the order they were created in
ShowsDefinition(v) ==
    LET items == DefinitionOf(v.tree).questions.items
        qs == v.out.questions
    IN  /\ Len(qs) = Len(items)
        /\ \A i \in 1..Len(qs) :
            LET given == items[i].answers.items
                shown == qs[i].answers
            IN  /\ qs[i].questionText = items[i].questionText
                /\ qs[i].questionType = items[i].questionType
                /\ qs[i].points = (IF items[i].points = 0 THEN 1 ELSE items[i].points)
                /\ qs[i].position = i - 1
                /\ \A j \in 1..Len(qs) : qs[i].id = qs[j].id => i = j
                /\ Len(shown) = Len(given)
                /\ \A k \in 1..Len(shown) :
                    /\ shown[k].answerText = given[k].answerText
                    /\ \E a \in v.tree.answers : a.id = shown[k].id /\ a.questionId = qs[i].id
                    /\ k > 1 => shown[k - 1].id < shown[k].id

\* a view without randomize of a quiz that exists
PlainView(v) == IF v = NoResponse THEN FALSE ELSE ~v.request.randomize /\ v.out.status # 404

\* C20: a quiz created with N questions of M answers each, assembled with
\* randomize=false, shows exactly those N questions in the order of the
\* submitted array (the i-th at position i - 1), each with exactly its M
\* answers in creation order; the same request again, with no write in
\* between, shows the same
C20_PlainViewRoundTrip ==
    [][/\ PlainView(view') => (view'.out.status = 200 /\ ShowsDefinition(view'))
       /\ (PlainView(view) /\ view'.request = view.request /\ view'.mock = view.mock
                /\ view'.tree = view.tree)
            => view'.out = view.out]_vars

\* the quiz of three questions was shown without randomize, and again later
C20_Witness ==
    /\ PlainView(view)
    /\ view.out.status = 200
    /\ Len(view.out.questions) = 3
    /\ view.at > view.first

----------------------------------------------------------------------------
(* Stored questions *)

\* C21: every stored Question has a point value of at least 1, whatever
\* points value (absent, 0, negative) the creation payload gave
C21_PointsAtLeastOne == \A q \in db.rows.questions : q.points >= 1

----------------------------------------------------------------------------
(* Metadata of a quiz view *)

\* C22: the metadata of a successful view gives the quiz's question count, the
\* number of questions returned, randomized exactly when the question order
\* was shuffled, answersShuffled exactly when the answer lists were shuffled,
\* and the seed string used (none when nothing was shuffled)
C22_MetadataTellsWhatWasDone ==
    IF view = NoResponse THEN TRUE
    ELSE view.out.status = 200 =>
            LET q == view.request
                md == view.out.metadata
                didShuffle == q.randomize /\ view.tree.questions # {}
            IN  /\ md.totalAvailableQuestions = Cardinality(view.tree.questions)
                /\ md.returnedQuestions = Len(view.out.questions)
                /\ md.randomized = didShuffle
                /\ md.answersShuffled = (didShuffle /\ q.shuffleAnswers)
                /\ md.seed = (IF didShuffle THEN SeedOf(q) ELSE <<>>)

----------------------------------------------------------------------------
(* Failing persistence calls *)

\* the request of resp[s] ended in the catch block
Caught(s) == IF resp[s] = NoResponse THEN FALSE ELSE resp[s].status \in {0, 500}

\* C23: when a persistence call of a transactional operation throws (the
\* read-back after the commit included), the request ends with a failure
\* response sent to the caller and none of its writes is in the store: no row
\* it created, and the quiz a delete named is what it was before
C23_ThrowRollsBackAndAnswers ==
    \A s \in Slots :
        Caught(s) =>
            /\ resp[s].status = 500
            /\ \A t \in Tables : MadeSince(s, t) = {}
            /\ DeleteReply(s) => QuizTree(db.rows, resp[s].made) = resp[s].before

----------------------------------------------------------------------------
(* Deletion of a quiz *)

\* C24: after a successful delete none of the quiz's Questions and Answers
\* remains (nor the Quiz), and in no committed state is there a Question
\* without its Quiz or an Answer without its Question
C24_DeleteCascades ==
    /\ \A q \in db.rows.questions : \E z \in db.rows.quizzes : z.id = q.quizId
    /\ \A a \in db.rows.answers : \E q \in db.rows.questions : q.id = a.questionId
    /\ \A s \in Slots :
        (DeleteReply(s) /\ resp[s].status = 200) =>
            /\ QuizTree(db.rows, resp[s].made) = [quiz |-> {}, questions |-> {}, answers |-> {}]
            /\ db.rows.quizzes \cap resp[s].before.quiz = {}
            /\ db.rows.questions \cap resp[s].before.questions = {}
            /\ db.rows.answers \cap resp[s].before.answers = {}

\* a quiz with questions and answers was deleted
C24_Witness ==
    \E s \in Slots :
        /\ DeleteReply(s) /\ resp[s].status = 200
        /\ resp[s].before.quiz # {}
        /\ Cardinality(resp[s].before.questions) = 2
        /\ Cardinality(resp[s].before.answers) = 4

----------------------------------------------------------------------------
(* A delete racing a submission for the same quiz *)

RaceSlots == {1, 2}

\* complete bodies for the quiz of id 1
RaceBodies(rows) ==
    {[quizId |-> 1, startedAt |-> 1, answers |-> Arr(l)] :
        l \in SeqsUpTo(Entries(QuizTree(rows, 1)), MaxSubs)}

\* the store was synchronised with either rule for its NOT NULL foreign keys
InitRace ==
    /\ db \in {[EmptyDb EXCEPT !.onDelete = rule] : rule \in OnDeleteRules}
    /\ reqs = [s \in RaceSlots |-> Idle]
    /\ resp = [s \in RaceSlots |-> NoResponse]
    /\ view = NoResponse
    /\ now = 0
    /\ sched = NoSchedule
    /\ seedIn = <<>> /\ arrayIn = <<>> /\ hash = 0 /\ shuffled = <<>>
    /\ idx = 0 /\ calls = 0 /\ spc = "off"

\* the quiz is authored once, as a lesson quiz or as a mock test
AuthorForRace(s) ==
    /\ s = 1 /\ db.nextId.quizzes = 1
    /\ \E mock \in BOOLEAN : CreateStart(s, mock, DefTwo)

\* the quiz has been authored and its 201 sent
Authored == IF reqs[1].op = "idle" THEN resp[1] # NoResponse ELSE IsSubmit(reqs[1])

\* one client submits once
SubmitInRace(s) ==
    /\ s = 1 /\ reqs[s] = Idle /\ CreateReply(s)
    /\ \E mock \in BOOLEAN, body \in RaceBodies(db.rows) : SubmitStart(s, mock, body, 1)

\* an admin deletes the quiz once, at any moment from then on
DeleteInRace(s) ==
    /\ s = 2 /\ reqs[s] = Idle /\ resp[s] = NoResponse /\ Authored
    /\ \E mock \in BOOLEAN : DeleteStart(s, mock, 1)

\* the store ends a cycle of waiting transactions by failing the call of one
Deadlock(s) ==
    /\ CreateWaits(s) \/ DestroyWaits(s)
    /\ \E o \in RaceSlots \ {s} : CreateWaits(o) \/ DestroyWaits(o)
    /\ reqs' = [reqs EXCEPT ![s].pc = "catch"]
    /\ UNCHANGED <<db, resp, shuffleVars, viewVars>>

NextRace ==
    \/ \E s \in RaceSlots : AuthorForRace(s)
    \/ \E s \in RaceSlots : CreateBegin(s)
    \/ \E s \in RaceSlots : CreateRoot(s)
    \/ \E s \in RaceSlots : CreateQuestion(s)
    \/ \E s \in RaceSlots : CreateAnswer(s)
    \/ \E s \in RaceSlots : CreateReadback(s)
    \/ \E s \in RaceSlots : SubmitInRace(s)
    \/ \E s \in RaceSlots : SubmitBegin(s)
    \/ \E s \in RaceSlots : SubmitFind(s)
    \/ \E s \in RaceSlots : SubmitCreateAttempt(s)
    \/ \E s \in RaceSlots : SubmitUserAnswer(s)
    \/ \E s \in RaceSlots : SubmitUpdate(s)
    \/ \E s \in RaceSlots : SubmitReadback(s)
    \/ \E s \in RaceSlots : DeleteInRace(s)
    \/ \E s \in RaceSlots : DeleteBegin(s)
    \/ \E s \in RaceSlots : DeleteFind(s)
    \/ \E s \in RaceSlots : DeleteCount(s)
    \/ \E s \in RaceSlots : DeleteFindQuestions(s)
    \/ \E s \in RaceSlots : DeleteAnswers(s)
    \/ \E s \in RaceSlots : DeleteQuestions(s)
    \/ \E s \in RaceSlots : DeleteQuizRow(s)
    \/ \E s \in RaceSlots : Rollback(s)
    \/ \E s \in RaceSlots : Commit(s)
    \/ \E s \in RaceSlots : Thrown(s)
    \/ \E s \in RaceSlots : Deadlock(s)

SpecRace == InitRace /\ [][NextRace]_vars

\* no committed Attempt names a quiz that is not in the store
NoAttemptWithoutQuiz ==
    \A a \in db.rows.attempts : \E z \in db.rows.quizzes : z.id = a.quizId

----------------------------------------------------------------------------
(* Two submissions for the same quiz at once *)

PairSlots == {1, 2, 3}

InitPair ==
    /\ db = EmptyDb
    /\ reqs = [s \in PairSlots |-> Idle]
    /\ resp = [s \in PairSlots |-> NoResponse]
    /\ view = NoResponse
    /\ now = 0
    /\ sched = NoSchedule
    /\ seedIn = <<>> /\ arrayIn = <<>> /\ hash = 0 /\ shuffled = <<>>
    /\ idx = 0 /\ calls = 0 /\ spc = "off"

AuthorForPair(s) ==
    /\ s = 3 /\ db.nextId.quizzes = 1
    /\ CreateStart(s, FALSE, DefTwo)

\* a submission that runs alone, start to end
SubmitAlone(s) ==
    /\ s = 3 /\ reqs[s] = Idle /\ CreateReply(s)
    /\ \E body \in RaceBodies(db.rows) : SubmitStart(s, FALSE, body, 1)

\* the submission that ran alone has been answered
AloneDone == SubmitReply(3)

\* the same submission is sent again, now next to another one
SubmitSame(s) ==
    /\ s = 1 /\ reqs[s] = Idle /\ resp[s] = NoResponse /\ AloneDone
    /\ SubmitStart(s, FALSE, resp[3].body, 1)

\* the other one: a shorter submission for the quiz, by an anonymous client
SubmitOther(s) ==
    /\ s = 2 /\ reqs[s] = Idle /\ resp[s] = NoResponse /\ AloneDone
    /\ \E body \in {b \in RaceBodies(db.rows) : Len(b.answers.items) < MaxSubs} :
            SubmitStart(s, FALSE, body, 0)

NextPair ==
    \/ \E s \in PairSlots : AuthorForPair(s)
    \/ \E s \in PairSlots : CreateBegin(s)
    \/ \E s \in PairSlots : CreateRoot(s)
    \/ \E s \in PairSlots : CreateQuestion(s)
    \/ \E s \in PairSlots : CreateAnswer(s)
    \/ \E s \in PairSlots : CreateReadback(s)
    \/ \E s \in PairSlots : SubmitAlone(s)
    \/ \E s \in PairSlots : SubmitSame(s)
    \/ \E s \in PairSlots : SubmitOther(s)
    \/ \E s \in PairSlots : SubmitBegin(s)
    \/ \E s \in PairSlots : SubmitFind(s)
    \/ \E s \in PairSlots : SubmitCreateAttempt(s)
    \/ \E s \in PairSlots : SubmitUserAnswer(s)
    \/ \E s \in PairSlots : SubmitUpdate(s)
    \/ \E s \in PairSlots : Commit(s)
    \/ \E s \in PairSlots : SubmitReadback(s)

SpecPair == InitPair /\ [][NextPair]_vars

\* what is stored of an attempt apart from its id and its user
Scored(a) ==
    [score |-> a.score, maxScore |-> a.maxScore, percentageScore |-> a.percentageScore,
     passed |-> a.passed]

\* what is stored of a user answer apart from its id and its attempt
Answered(u) ==
    [questionId |-> u.questionId, answerId |-> u.answerId, isCorrect |-> u.isCorrect,
     pointsEarned |-> u.pointsEarned]

AttemptRows(id) == {a \in db.rows.attempts : a.id = id}

AnswerRows(id) == {u \in db.rows.userAnswers : u.attemptId = id}

\* the requests on the slots in S have been answered 201
Submitted(S) == \A s \in S : SubmitReply(s) /\ resp[s].status = 201

\* C25: two submissions for the same quiz that run at once do not interact:
\* each makes an Attempt of its own, its UserAnswers (one per entry) belong
\* to that Attempt, and the score, maxScore, percentageScore and passed it
\* answers and stores are those of the same submission run alone
C25_ConcurrentSubmissionsDoNotInteract ==
    /\ \A s \in {1, 2}, t \in PairSlots :
            (s # t /\ Submitted({s, t})) => resp[s].made # resp[t].made
    /\ \A s \in {1, 2} :
            Submitted({s}) =>
                /\ Cardinality(AttemptRows(resp[s].made)) = 1
                /\ Cardinality(AnswerRows(resp[s].made)) = Len(OfQuiz(resp[s].quiz, resp[s].body.answers.items))
                /\ \A a \in AttemptRows(resp[s].made) :
                        /\ a.score = {resp[s].result.score}
                        /\ a.maxScore = {resp[s].result.maxScore}
                        /\ a.passed = {resp[s].result.passed}
    /\ Submitted({1, 3}) =>
            /\ resp[1].result = resp[3].result
            /\ {Scored(a) : a \in AttemptRows(resp[1].made)} =
               {Scored(a) : a \in AttemptRows(resp[3].made)}
            /\ {Answered(u) : u \in AnswerRows(resp[1].made)} =
               {Answered(u) : u \in AnswerRows(resp[3].made)}

\* both have been answered after running interleaved, with answers graded
C25_Witness ==
    /\ Submitted({1, 2, 3})
    /\ resp[1].made # resp[2].made
    /\ resp[1].result.score > 0
    /\ resp[2].result.score # resp[1].result.score
    /\ \E u \in AnswerRows(resp[1].made), v \in AnswerRows(resp[2].made) :
            u.id < v.id /\ \E x \in AnswerRows(resp[1].made) : x.id > v.id

----------------------------------------------------------------------------
(* The stored score against the stored answers *)

RECURSIVE SumOver(_, _)
\* the sum of f[x] over the x of S
SumOver(S, f) ==
    IF S = {} THEN 0
    ELSE LET x == CHOOSE y \in S : TRUE
         IN  f[x] + SumOver(S \ {x}, f)

\* the point value of the question a stored user answer names
PointsOfQuestion(u) ==
    LET q == CHOOSE y \in db.rows.questions : y.id = u.questionId IN q.points

\* the stored attempts that have been scored
ScoredAttempts == {a \in db.rows.attempts : a.score # {}}

\* C27: a stored scored Attempt has as score the sum of pointsEarned of its
\* UserAnswers and as maxScore the sum of the points of their questions, one
\* term per UserAnswer; with positive points 0 <= score <= maxScore and
\* 0 <= percentageScore <= 100 (stored in hundredths), duplicate and
\* conflicting entries included
C27_ScoreIsSumOfAnswers ==
    \A a \in ScoredAttempts :
        LET mine == AnswerRows(a.id)
            score == SumOver(mine, [u \in mine |-> u.pointsEarned])
            maxScore == SumOver(mine, [u \in mine |-> PointsOfQuestion(u)])
        IN  /\ a.score = {score}
            /\ a.maxScore = {maxScore}
            /\ (\A q \in db.rows.questions : q.points > 0) =>
                    /\ 0 <= score /\ score <= maxScore
                    /\ \A p \in a.percentageScore : 0 <= p /\ p <= 10000

\* an attempt with two entries for one question that disagree
C27_Witness ==
    \E a \in ScoredAttempts :
        \E u \in AnswerRows(a.id), v \in AnswerRows(a.id) :
            /\ u.id # v.id /\ u.questionId = v.questionId
            /\ u.isCorrect /\ ~v.isCorrect
            /\ a.score = {PointsOfQuestion(u)}
            /\ a.maxScore = {2 * PointsOfQuestion(u)}

----------------------------------------------------------------------------
(* The scheduled cleanup of scraped question sets *)

\* "JEE Questions -", the start of the title saveQuestionsToDatabase gives
JeePrefix == <<74, 69, 69, 32, 81, 117, 101, 115, 116, 105, 111, 110, 115, 32, 45>>

\* title LIKE 'JEE Questions -%'
StartsWith(str, prefix) ==
    Len(str) >= Len(prefix) /\ SubSeq(str, 1, Len(prefix)) = prefix

\* thirtyDaysAgo.setDate(thirtyDaysAgo.getDate() - 30); the clock counts days here
ThirtyDays == 30

\* a question set titled as the scraper titles them
DefJee == [DefTwo EXCEPT !.title = JeePrefix \o <<32, 49>>]

CleanSlots == {1, 2}

InitCleanup ==
    /\ db \in {[EmptyDb EXCEPT !.onDelete = rule] : rule \in OnDeleteRules}
    /\ reqs = [s \in CleanSlots |-> Idle]
    /\ resp = [s \in CleanSlots |-> NoResponse]
    /\ view = NoResponse
    /\ now = 0
    /\ sched = NoSchedule
    /\ seedIn = <<>> /\ arrayIn = <<>> /\ hash = 0 /\ shuffled = <<>>
    /\ idx = 0 /\ calls = 0 /\ spc = "off"

\* question sets and other quizzes come into the store
AuthorForCleanup(s) ==
    /\ s = 1 /\ reqs[s] = Idle /\ db.nextId.quizzes <= MaxQuizId
    /\ \E mock \in BOOLEAN, def \in {DefJee, DefTwo} : CreateStart(s, mock, def)

\* a client submits an attempt for a quiz of the store
SubmitForCleanup(s) ==
    /\ s = 1 /\ reqs[s] = Idle /\ db.nextId.attempts <= MaxAttemptId
    /\ \E z \in db.rows.quizzes :
        \E l \in SeqsUpTo(Entries(QuizTree(db.rows, z.id)), 1) :
            SubmitStart(s, FALSE, [quizId |-> z.id, startedAt |-> 1, answers |-> Arr(l)], 1)

\* more than thirty days pass
Later ==
    /\ now <= MaxNow
    /\ now' = now + ThirtyDays + 1
    /\ UNCHANGED <<view, sched, storeVars, shuffleVars>>

IsClean(r) == r.op = "cleanOldQuestions"

\* the cron job fires and cleanOldQuestions is called
CleanStart(s) ==
    /\ s = 2 /\ reqs[s] = Idle
    /\ reqs' = [reqs EXCEPT ![s] =
            [op |-> "cleanOldQuestions", pc |-> "findOld", tx |-> NoTx, todo |-> {},
             removed |-> {}, lost |-> {}]]
    /\ resp' = [resp EXCEPT ![s] = NoResponse]
    /\ UNCHANGED <<db, shuffleVars, viewVars>>

\* Quiz.findAll({ where: { lessonId: null, title: like, createdAt: lt } })
OldQuizzes(rows, today) ==
    {z \in rows.quizzes :
        z.lessonId = 0 /\ StartsWith(z.title, JeePrefix) /\ z.createdAt < today - ThirtyDays}

\* what the job leaves in the log when it ends
CleanLog(r, message) ==
    [status |-> 200, message |-> message, op |-> r.op, removed |-> r.removed, lost |-> r.lost]

CleanFind(s) ==
    LET r == reqs[s]
        ids == {z.id : z \in OldQuizzes(db.rows, now)}
    IN  /\ IsClean(r) /\ r.pc = "findOld"
        /\ IF ids = {}
           THEN /\ reqs' = [reqs EXCEPT ![s] = Idle]
                /\ resp' = [resp EXCEPT ![s] = CleanLog(r, "cleaned")]
           ELSE /\ reqs' = [reqs EXCEPT ![s] = [r EXCEPT !.todo = ids, !.pc = "destroy"]]
                /\ resp' = resp
        /\ UNCHANGED <<db, shuffleVars, viewVars>>

\* the options of quiz.destroy() in cleanOldQuestions
CleanDestroyOptions == NoTransaction

\* await quiz.destroy() of the next quiz found, nothing else: the rows that
\* reference the quiz go with it (CASCADE) or make the call fail (NO ACTION),
\* and then the catch block logs the error and the job ends
CleanDestroy(s) ==
    LET r == reqs[s]
        id == Min(r.todo)
        rest == r.todo \ {id}
        questions == QuestionsOfQuiz(db.rows, id)
        answers == {a \in db.rows.answers : \E q \in questions : a.questionId = q.id}
        attempts == {a \in db.rows.attempts : a.quizId = id}
        userAnswers == {u \in db.rows.userAnswers :
                            \/ \E a \in attempts : u.attemptId = a.id
                            \/ \E q \in questions : u.questionId = q.id}
        w == Destroy(Destroy(Destroy(Destroy(Destroy(World(s),
                "quizzes", {z \in db.rows.quizzes : z.id = id}, CleanDestroyOptions),
                "questions", questions, CleanDestroyOptions),
                "answers", answers, CleanDestroyOptions),
                "attempts", attempts, CleanDestroyOptions),
                "userAnswers", userAnswers, CleanDestroyOptions)
        after == [r EXCEPT !.todo = rest, !.removed = @ \cup {id}, !.lost = @ \cup attempts]
    IN  /\ IsClean(r) /\ r.pc = "destroy"
        /\ ~\E a \in InsertedElsewhere(s, "attempts") : a.quizId = id
        /\ ~\E q \in InsertedElsewhere(s, "questions") : q.quizId = id
        /\ IF (questions = {} /\ attempts = {}) \/ db.onDelete = "CASCADE"
           THEN /\ db' = w.db
                /\ IF rest = {}
                   THEN /\ reqs' = [reqs EXCEPT ![s] = Idle]
                        /\ resp' = [resp EXCEPT ![s] = CleanLog(after, "cleaned")]
                   ELSE /\ reqs' = [reqs EXCEPT ![s] = after]
                        /\ resp' = resp
           ELSE /\ db' = db
                /\ reqs' = [reqs EXCEPT ![s] = Idle]
                /\ resp' = [resp EXCEPT ![s] = CleanLog(r, "error")]
        /\ UNCHANGED <<shuffleVars, viewVars>>

NextCleanup ==
    \/ \E s \in CleanSlots : AuthorForCleanup(s)
    \/ \E s \in CleanSlots : CreateBegin(s)
    \/ \E s \in CleanSlots : CreateRoot(s)
    \/ \E s \in CleanSlots : CreateQuestion(s)
    \/ \E s \in CleanSlots : CreateAnswer(s)
    \/ \E s \in CleanSlots : CreateReadback(s)
    \/ \E s \in CleanSlots : SubmitForCleanup(s)
    \/ \E s \in CleanSlots : SubmitBegin(s)
    \/ \E s \in CleanSlots : SubmitFind(s)
    \/ \E s \in CleanSlots : SubmitCreateAttempt(s)
    \/ \E s \in CleanSlots : SubmitUserAnswer(s)
    \/ \E s \in CleanSlots : SubmitUpdate(s)
    \/ \E s \in CleanSlots : SubmitReadback(s)
    \/ \E s \in CleanSlots : Rollback(s)
    \/ \E s \in CleanSlots : Commit(s)
    \/ \E s \in CleanSlots : Thrown(s)
    \/ \E s \in CleanSlots : CleanStart(s)
    \/ \E s \in CleanSlots : CleanFind(s)
    \/ \E s \in CleanSlots : CleanDestroy(s)
    \/ Later

SpecCleanup == InitCleanup /\ [][NextCleanup]_vars

\* the log of a cleanup that has ended
CleanReply(s) == IF resp[s] = NoResponse THEN FALSE ELSE resp[s].op = "cleanOldQuestions"

----------------------------------------------------------------------------
(* uploadQuestionFile *)

\* the uploaded file by its mimetype: none, docx, pdf, or any other type
FileTypes == {"none", "docx", "pdf", "other"}

\* a line of the extracted text by what the patterns make of it: the start
\* of a question, an answer option marked correct or not, or other text
LineKinds == {"question", "correct", "wrong", "text"}

\* longest extracted text, in lines
MaxLines == 3

IsUpload(r) == r.op = "uploadQuestionFile"

\* the response of uploadQuestionFile, with the state its transaction is in
\* when it is sent and the number of commit and rollback calls made on it
UploadResponse(r, status, message) ==
    [status |-> status, message |-> message, op |-> r.op, made |-> r.quizId,
     tx |-> r.tx.state, finished |-> r.finished, from |-> r.from]

RECURSIVE Scan(_, _, _, _)
\* the loop over the lines from line i on, up to its next saveQuestion call
\* (reached at a question line when a question with answers is at hand) or
\* to its end; has: currentQuestion is set, answers: currentAnswers
Scan(lines, i, has, answers) ==
    IF i > Len(lines)
    THEN [i |-> i, has |-> has, answers |-> answers, save |-> has /\ answers # <<>>,
          last |-> TRUE]
    ELSE IF lines[i] = "question"
    THEN IF has /\ answers # <<>>
         THEN [i |-> i, has |-> has, answers |-> answers, save |-> TRUE, last |-> FALSE]
         ELSE Scan(lines, i + 1, TRUE, answers)
    ELSE IF lines[i] \in {"correct", "wrong"}
    THEN Scan(lines, i + 1, has, Append(answers, lines[i] = "correct"))
    ELSE Scan(lines, i + 1, has, answers)

\* the request arrives: the handler runs up to `await sequelize.transaction()`
UploadStart(s, file, title, lines) ==
    /\ reqs[s] = Idle
    /\ reqs' = [reqs EXCEPT ![s] =
            [op |-> "uploadQuestionFile", pc |-> "begin", file |-> file, title |-> title,
             lines |-> lines, tx |-> NoTx, finished |-> 0, out |-> NoResponse, quizId |-> 0,
             questionId |-> 0, k |-> 0, position |-> 0,
             at |-> Scan(<<>>, 1, FALSE, <<>>), from |-> db.nextId]]
    /\ resp' = [resp EXCEPT ![s] = NoResponse]
    /\ UNCHANGED <<db, shuffleVars, viewVars>>

UploadRequest(s) ==
    /\ reqs[s] = Idle /\ db.nextId.quizzes <= MaxQuizId
    /\ \E file \in FileTypes, title \in {<<>>, <<84>>}, lines \in SeqsUpTo(LineKinds, MaxLines) :
            UploadStart(s, file, title, lines)

\* the transaction is open; the checks up to the first await: without a file
\* the 400 is sent at once, without a title or with another file type the
\* transaction is rolled back first
UploadBegin(s) ==
    LET r == [reqs[s] EXCEPT !.tx = OpenTx]
    IN  /\ IsUpload(r) /\ r.pc = "begin"
        /\ IF r.file = "none"
           THEN /\ resp' = [resp EXCEPT ![s] = UploadResponse(r, 400, "No file uploaded")]
                /\ reqs' = [reqs EXCEPT ![s] = Idle]
           ELSE /\ resp' = resp
                /\ reqs' = [reqs EXCEPT ![s] =
                        IF r.title = <<>>
                        THEN [r EXCEPT !.pc = "rollback",
                                       !.out = BadRequest("Missing required field: title")]
                        ELSE IF r.file = "other"
                        THEN [r EXCEPT !.pc = "rollback",
                                       !.out = BadRequest("Unsupported file type")]
                        ELSE [r EXCEPT !.pc = "extract"]]
        /\ UNCHANGED <<db, shuffleVars, viewVars>>

\* await mammoth.extractRawText / pdfParse
UploadExtract(s) ==
    LET r == reqs[s]
    IN  /\ IsUpload(r) /\ r.pc = "extract"
        /\ reqs' = [reqs EXCEPT ![s] = [r EXCEPT !.pc = "createQuiz"]]
        /\ UNCHANGED <<db, resp, shuffleVars, viewVars>>

\* where the handler awaits next after the scan result at
UploadNext(at) == IF at.save THEN "saveQuestion" ELSE "commit"

\* Quiz.create({ lessonId: null, title, ... }, { transaction }), then the
\* loop up to its first saveQuestion
UploadCreateQuiz(s) ==
    LET r == reqs[s]
        w == Create(World(s), "quizzes",
                [id |-> 0, lessonId |-> 0, title |-> r.title, passingScore |-> {70},
                 createdAt |-> now],
                WithTransaction)
        at == Scan(r.lines, 1, FALSE, <<>>)
    IN  /\ IsUpload(r) /\ r.pc = "createQuiz"
        /\ db' = w.db
        /\ reqs' = [reqs EXCEPT ![s] =
                [r EXCEPT !.tx = w.tx, !.quizId = w.id, !.at = at, !.pc = UploadNext(at)]]
        /\ UNCHANGED <<resp, shuffleVars, viewVars>>

\* the number of true entries of a sequence of booleans
CountTrue(flags) == Cardinality({k \in 1..Len(flags) : flags[k]})

\* saveQuestion: QuizQuestion.create({ quizId, questionText, questionType, points: 1, position })
UploadSaveQuestion(s) ==
    LET r == reqs[s]
        w == Create(World(s), "questions",
                [id |-> 0, quizId |-> r.quizId, questionText |-> StrQ,
                 questionType |-> IF CountTrue(r.at.answers) = 1 THEN "single_choice"
                                  ELSE "multiple_choice",
                 points |-> 1, explanation |-> <<>>, position |-> r.position],
                WithTransaction)
    IN  /\ IsUpload(r) /\ r.pc = "saveQuestion"
        /\ db' = w.db
        /\ reqs' = [reqs EXCEPT ![s] =
                [r EXCEPT !.tx = w.tx, !.questionId = w.id, !.k = 1, !.pc = "saveAnswer"]]
        /\ UNCHANGED <<resp, shuffleVars, viewVars>>

\* saveQuestion: QuizAnswer.create for answer k; after the last one the loop
\* goes on with the question line it stopped at, unless it had ended
UploadSaveAnswer(s) ==
    LET r == reqs[s]
        w == Create(World(s), "answers",
                [id |-> 0, questionId |-> r.questionId, answerText |-> StrOptA,
                 isCorrect |-> r.at.answers[r.k], explanation |-> <<>>],
                WithTransaction)
        at == Scan(r.lines, r.at.i + 1, TRUE, <<>>)
    IN  /\ IsUpload(r) /\ r.pc = "saveAnswer"
        /\ db' = w.db
        /\ reqs' = [reqs EXCEPT ![s] =
                IF r.k < Len(r.at.answers) THEN [r EXCEPT !.tx = w.tx, !.k = @ + 1]
                ELSE IF r.at.last THEN [r EXCEPT !.tx = w.tx, !.pc = "commit"]
                ELSE [r EXCEPT !.tx = w.tx, !.at = at, !.position = @ + 1,
                               !.pc = UploadNext(at)]]
        /\ UNCHANGED <<resp, shuffleVars, viewVars>>

\* await transaction.commit(), then the 201
UploadCommit(s) ==
    LET r == reqs[s]
        w == CommitTx(World(s))
        done == [r EXCEPT !.tx = w.tx, !.finished = @ + 1]
    IN  /\ IsUpload(r) /\ r.pc = "commit"
        /\ db' = w.db
        /\ resp' = [resp EXCEPT ![s] = UploadResponse(done, 201, "uploaded")]
        /\ reqs' = [reqs EXCEPT ![s] = Idle]
        /\ UNCHANGED <<shuffleVars, viewVars>>

\* await transaction.rollback() on a validation path, then the 400
UploadRollback(s) ==
    LET r == reqs[s]
        w == RollbackTx(World(s))
        done == [r EXCEPT !.tx = w.tx, !.finished = @ + 1]
    IN  /\ IsUpload(r) /\ r.pc = "rollback"
        /\ db' = w.db
        /\ resp' = [resp EXCEPT ![s] = UploadResponse(done, r.out.status, r.out.message)]
        /\ reqs' = [reqs EXCEPT ![s] = Idle]
        /\ UNCHANGED <<shuffleVars, viewVars>>

\* an awaited call inside try rejects: catch rolls back and sends the 500
UploadCatch(s) ==
    LET r == reqs[s]
        w == RollbackTx(World(s))
        done == [r EXCEPT !.tx = w.tx, !.finished = @ + 1]
    IN  /\ IsUpload(r)
        /\ r.pc \in {"extract", "createQuiz", "saveQuestion", "saveAnswer", "commit"}
        /\ db' = w.db
        /\ resp' = [resp EXCEPT ![s] =
                UploadResponse(done, 500, "Failed to upload question file")]
        /\ reqs' = [reqs EXCEPT ![s] = Idle]
        /\ UNCHANGED <<shuffleVars, viewVars>>

NextUpload ==
    \/ \E s \in Slots : UploadRequest(s)
    \/ \E s \in Slots : UploadBegin(s)
    \/ \E s \in Slots : UploadExtract(s)
    \/ \E s \in Slots : UploadCreateQuiz(s)
    \/ \E s \in Slots : UploadSaveQuestion(s)
    \/ \E s \in Slots : UploadSaveAnswer(s)
    \/ \E s \in Slots : UploadCommit(s)
    \/ \E s \in Slots : UploadRollback(s)
    \/ \E s \in Slots : UploadCatch(s)

SpecUpload == Init /\ [][NextUpload]_vars

UploadReply(s) == IF resp[s] = NoResponse THEN FALSE ELSE resp[s].op = "uploadQuestionFile"

\* C29: when a handler that opened a transaction sends its response, the
\* transaction has been committed or rolled back, by exactly one such call;
\* it is not left open
C29_TransactionFinishedOnceBeforeResponse ==
    \A s \in Slots :
        UploadReply(s) =>
            /\ resp[s].tx \in {"committed", "rolledback"}
            /\ resp[s].finished = 1

----------------------------------------------------------------------------
(* SchedulerService.scheduleImmediateScraping *)

\* the calls of the job's callback that can be under way at once
FireSlots == {1, 2}

\* the length of this.sources of the scraper service
NumSources == 3

InitImmediate ==
    /\ db = EmptyDb
    /\ reqs = [s \in FireSlots |-> Idle]
    /\ resp = [s \in FireSlots |-> NoResponse]
    /\ view = NoResponse
    /\ now = 0
    /\ sched = NoSchedule
    /\ seedIn = <<>> /\ arrayIn = <<>> /\ hash = 0 /\ shuffled = <<>>
    /\ idx = 0 /\ calls = 0 /\ spc = "off"

\* cron.schedule('*/10 * * * * *', callback, { scheduled: true }) and
\* this.jobs.set('immediateScraping', immediateJob)
ScheduleImmediateScraping ==
    /\ sched.immediateJob = "none"
    /\ sched' = [sched EXCEPT !.immediateJob = "scheduled",
                              !.jobs = @ \cup {"immediateScraping"}]
    /\ UNCHANGED <<view, now, storeVars, shuffleVars>>

IsScrape(r) == r.op = "immediateScraping"

\* the job's ten seconds come round while it is scheduled: the callback is
\* called, whether or not an earlier call of it has returned, and runs up to
\* the first await of scrapeAllQuestions
Fire(s) ==
    /\ sched.immediateJob = "scheduled"
    /\ reqs[s] = Idle /\ resp[s] = NoResponse
    /\ reqs' = [reqs EXCEPT ![s] =
            [op |-> "immediateScraping", pc |-> "scrapeSource", tx |-> NoTx, source |-> 1,
             found |-> 0, saved |-> 0, quizId |-> 0, message |-> "completed",
             from |-> db.nextId]]
    /\ sched' = [sched EXCEPT !.scrapes = @ + 1]
    /\ UNCHANGED <<db, resp, view, now, shuffleVars>>

\* scrapeAllQuestions: the next source is scraped; it gives a question or
\* none (an error of the source is logged and counts as none)
ScrapeSource(s) ==
    LET r == reqs[s]
    IN  /\ IsScrape(r) /\ r.pc = "scrapeSource"
        /\ \E n \in {0, 1} :
            reqs' = [reqs EXCEPT ![s] =
                [r EXCEPT !.found = @ + n, !.source = @ + 1,
                          !.pc = IF r.source < NumSources THEN "scrapeSource"
                                 ELSE IF r.found + n > 0 THEN "saveQuiz" ELSE "end"]]
        /\ UNCHANGED <<db, resp, shuffleVars, viewVars>>

\* saveQuestionsToDatabase: the transaction and Quiz.create of the question set
SaveQuiz(s) ==
    LET r == reqs[s]
        w == Create([db |-> db, tx |-> OpenTx], "quizzes",
                [id |-> 0, lessonId |-> 0, title |-> JeePrefix \o <<32, 49>>,
                 passingScore |-> {33}, createdAt |-> now],
                WithTransaction)
    IN  /\ IsScrape(r) /\ r.pc = "saveQuiz"
        /\ db' = w.db
        /\ reqs' = [reqs EXCEPT ![s] =
                [r EXCEPT !.tx = w.tx, !.quizId = w.id, !.pc = "saveQuestion"]]
        /\ UNCHANGED <<resp, shuffleVars, viewVars>>

\* saveQuestionsToDatabase: QuizQuestion.create of the next question and
\* QuizAnswer.create of its answers, a correct one and a wrong one
SaveQuestion(s) ==
    LET r == reqs[s]
        w0 == Create(World(s), "questions",
                [id |-> 0, quizId |-> r.quizId, questionText |-> StrQ,
                 questionType |-> "single_choice", points |-> 4, explanation |-> <<>>,
                 position |-> r.saved],
                WithTransaction)
        w1 == Create(w0, "answers",
                [id |-> 0, questionId |-> w0.id, answerText |-> StrOptA, isCorrect |-> TRUE,
                 explanation |-> <<>>],
                WithTransaction)
        w == Create(w1, "answers",
                [id |-> 0, questionId |-> w0.id, answerText |-> StrOptB, isCorrect |-> FALSE,
                 explanation |-> <<>>],
                WithTransaction)
    IN  /\ IsScrape(r) /\ r.pc = "saveQuestion"
        /\ db' = w.db
        /\ reqs' = [reqs EXCEPT ![s] =
                [r EXCEPT !.tx = w.tx, !.saved = @ + 1,
                          !.pc = IF r.saved + 1 < r.found THEN "saveQuestion" ELSE "saveCommit"]]
        /\ UNCHANGED <<resp, shuffleVars, viewVars>>

\* saveQuestionsToDatabase: transaction.commit(); scrapeAllQuestions returns
SaveCommit(s) ==
    LET r == reqs[s]
        w == CommitTx(World(s))
    IN  /\ IsScrape(r) /\ r.pc = "saveCommit"
        /\ db' = w.db
        /\ reqs' = [reqs EXCEPT ![s] = [r EXCEPT !.tx = w.tx, !.pc = "end"]]
        /\ UNCHANGED <<resp, shuffleVars, viewVars>>

\* a create of saveQuestionsToDatabase rejects: rollback, and the error is
\* thrown on to the callback
SaveFails(s) ==
    LET r == reqs[s]
        w == RollbackTx(World(s))
    IN  /\ IsScrape(r) /\ r.pc \in {"saveQuestion", "saveCommit"}
        /\ db' = w.db
        /\ reqs' = [reqs EXCEPT ![s] = [r EXCEPT !.tx = w.tx, !.pc = "end", !.message = "failed"]]
        /\ UNCHANGED <<resp, shuffleVars, viewVars>>

\* the callback after scrapeAllQuestions, in try and in catch alike:
\* immediateJob.stop() and this.jobs.delete('immediateScraping')
JobEnd(s) ==
    LET r == reqs[s]
    IN  /\ IsScrape(r) /\ r.pc = "end"
        /\ sched' = [sched EXCEPT !.immediateJob = "stopped",
                                  !.jobs = @ \ {"immediateScraping"}]
        /\ resp' = [resp EXCEPT ![s] =
                [status |-> 200, message |-> r.message, op |-> r.op, made |-> r.quizId]]
        /\ reqs' = [reqs EXCEPT ![s] = Idle]
        /\ UNCHANGED <<db, view, now, shuffleVars>>

NextImmediate ==
    \/ ScheduleImmediateScraping
    \/ \E s \in FireSlots : Fire(s)
    \/ \E s \in FireSlots : ScrapeSource(s)
    \/ \E s \in FireSlots : SaveQuiz(s)
    \/ \E s \in FireSlots : SaveQuestion(s)
    \/ \E s \in FireSlots : SaveCommit(s)
    \/ \E s \in FireSlots : SaveFails(s)
    \/ \E s \in FireSlots : JobEnd(s)

SpecImmediate == InitImmediate /\ [][NextImmediate]_vars

\* a call of the callback has ended
ScrapeReply(s) == IF resp[s] = NoResponse THEN FALSE ELSE resp[s].op = "immediateScraping"

\* C30: one scheduleImmediateScraping starts scrapeAllQuestions once and not
\* again, no two scrapes of the job run at once, and when a scrape has ended
\* the job is stopped and gone from the registry
C30_ImmediateScrapeRunsOnce ==
    /\ sched.scrapes <= 1
    /\ Cardinality({s \in FireSlots : IsScrape(reqs[s])}) <= 1
    /\ (\E s \in FireSlots : ScrapeReply(s)) =>
            /\ sched.immediateJob = "stopped"
            /\ "immediateScraping" \notin sched.jobs

============================================================================
